---- MODULE Spec2Model ----
(***************************************************************************)
(* Model of lazyrec's recording coordinator (core/recorder.rs) together    *)
(* with the capture backend (core/capture.rs), the input monitor           *)
(* (core/input.rs) and the encoder thread it spawns.                       *)
(*                                                                         *)
(* A coordinator method runs with exclusive access (&mut self, and in      *)
(* lib.rs under the recorder mutex), so at most one method is in progress: *)
(* pc is its position.  start() and stop() are split at the points where   *)
(* the capture thread and the encoder thread can run in between.           *)
(* Every call of start() that gets as far as creating a channel creates a  *)
(* new "generation": channel, encoder and encoder thread of that call.     *)
(*                                                                         *)
(* The editing side of the program is modelled next to it: tracks and the  *)
(* tracks of a timeline (core/track.rs, core/timeline.rs), the keyframe    *)
(* constructor and the smart-zoom generator (core/keyframe.rs,             *)
(* core/generators.rs), the transform evaluator (core/evaluator.rs), the   *)
(* trim window and the export engine (core/render.rs).  Each part has its  *)
(* own specification over the same variables: Spec, FairSpec, SessionSpec, *)
(* ConfigSpec, ClockSpec, EditSpec, BuildSpec, EvalSpec, TrimSpec and      *)
(* ExportSpec.  The ripple generator and the smart-zoom generator over     *)
(* several sessions (RippleSpec, SmartZoomSpec), the cursor evaluator      *)
(* (CursorSpec), the stub encoder (EncoderSpec), failing appends in the    *)
(* encoder thread (AppendFailSpec), cancellation of an export              *)
(* (CancelSpec) and the commands of lib.rs that start an export            *)
(* (StartExportSpec) and start and stop a recording (CommandSpec) follow.  *)
(* Numbers of type f64 are integers in thousandths, times integers in ms   *)
(* or clock ticks.                                                         *)
(***************************************************************************)
EXTENDS Integers, Sequences, FiniteSets, TLC

\* ---- bounds of the model ----
MaxStarts == 2      \* start() calls that create a channel
MaxFrames == 3      \* frames the capture backend delivers in total
MaxQueue  == 2      \* queue capacity explored (the real capacity is larger)
MaxTime   == 4      \* ticks of the clock
MaxKeyframes == 3   \* keyframes in the edited track
MaxTracks == 2      \* tracks in the timeline
MaxExportFrames == 12  \* frames of the exported source

\* recorder.rs:104
FRAME_CHANNEL_CAPACITY == 120

\* capacity of the sync_channel, scaled down to the explored bound: the
\* channel's behaviour depends only on whether Len(queue) < capacity
Capacity == IF FRAME_CHANNEL_CAPACITY < MaxQueue THEN FRAME_CHANNEL_CAPACITY ELSE MaxQueue

Gens == 1..MaxStarts

VARIABLES
    \* RecordingCoordinator fields
    state,               \* RecordingState
    frame_sender,        \* generation whose SyncSender the coordinator holds, 0 = None
    encoder_thread,      \* generation whose JoinHandle the coordinator holds, 0 = None
    is_paused,           \* Arc<AtomicBool>
    shared_frame_count,  \* Arc<AtomicU64>
    dropped_frames,      \* Arc<AtomicU64>
    recording_start,     \* Option<Instant>: TRUE = Some
    pause_start,         \* Option<Instant>: TRUE = Some
    frame_count,         \* u64
    \* the coordinator method in progress and the last call
    pc,                  \* "idle" or the step of start()/stop() to run next
    last,                \* [op, ret]: the method call or return made by the last step, if any
    \* capture backend (WindowsCapture) and its thread
    capturing,           \* WindowsCapture.capturing
    should_stop,         \* CaptureFlags.should_stop
    capThread,           \* "off" | "idle" | "send" (inside the callback) | "stuck"
    cbGen,               \* generation whose sender the live on_frame callback owns, 0 = no callback
    cbFrame,             \* frame the callback is about to try_send, 0 = none
    nextFrame,           \* number of frames delivered to the callback so far
    \* input monitor
    monitoring,          \* InputMonitor.monitoring
    inThreads,           \* "off" | "run" | "poll_stuck" | "hook_stuck"
    \* channels and encoder threads, one per generation
    gen,                 \* number of channels created so far
    queue,               \* queue[g]: frames buffered in the channel
    encPc,               \* encPc[g]: "none" | "recv" | "append" | "finish" | "done" | "failed"
    encCur,              \* encCur[g]: frame taken by recv and not yet appended, 0 = none
    encoded,             \* encoded[g]: the thread's local counter
    appended,            \* appended[g]: frames passed to encoder.append_frame, in order
    finishCalls,         \* finishCalls[g]: calls of encoder.finish()
    attempted,           \* attempted[g]: try_send calls of the callback
    enqueued,            \* enqueued[g]: frames try_send accepted, in order
    \* RecordingCoordinator configuration and timers
    capture_target,      \* Option<CaptureTarget>: "None" or the target
    capture_dims,        \* [width, height]: capture_width, capture_height
    now,                 \* the monotonic clock (Instant::now), in ticks
    start_time,          \* the Instant in recording_start, 0 when None
    pause_time,          \* the Instant in pause_start, 0 when None
    total_paused,        \* total_paused, in ticks
    \* the project being edited and exported
    track,               \* a track: [type, is_enabled, keyframes]
    timeline,            \* Timeline: [tracks, duration, trim_start, trim_end]
    built,               \* keyframes returned by the constructor or the smart-zoom generator
    frame_state,         \* Option<EvaluatedFrameState>: <<>> or <<[time, transform]>>
    export,              \* ExportEngine::export: position, encoder calls, progress reports
    \* a video encoder driven directly, failed appends, and the command layer
    encoder,             \* StubEncoder: [encoding, frame_count] and the appends since start
    append_failed,       \* append_failed[g]: frames whose append_frame returned Err
    lock,                \* holder of the AppState.recorder mutex: 0 = free, else a stop thread
    stop_threads,        \* stop_threads[k]: the thread spawned by the k-th stop_recording
    export_job           \* the thread spawned by start_export: render settings and path taken

coord    == <<state, frame_sender, encoder_thread, recording_start, pause_start, frame_count>>
atomics  == <<is_paused, shared_frame_count, dropped_frames>>
capVars  == <<capturing, should_stop, capThread, cbGen, cbFrame, nextFrame>>
inpVars  == <<monitoring, inThreads>>
chanVars == <<gen, queue, encPc, encCur, encoded, appended, finishCalls, attempted, enqueued>>
cfgVars  == <<capture_target, capture_dims>>
timers   == <<start_time, pause_time, total_paused>>
projVars == <<track, timeline, built, frame_state, export>>
recVars  == <<coord, atomics, capVars, inpVars, chanVars, pc, last, cfgVars, timers, now>>
recVarsButLast == <<coord, atomics, capVars, inpVars, chanVars, pc, cfgVars, timers, now>>
auxVars  == <<encoder, append_failed, lock, stop_threads, export_job>>
vars     == <<recVars, projVars, auxVars>>

States == {"Idle", "Countdown", "Recording", "Paused", "Stopping", "Completed", "Failed"}

\* ---- RecordingCoordinator::new ----
\* width and height of a new coordinator
DefaultDims == [width |-> 1920, height |-> 1080]

CoordinatorNew ==
    /\ state = "Idle"
    /\ frame_sender = 0
    /\ encoder_thread = 0
    /\ is_paused = FALSE
    /\ shared_frame_count = 0
    /\ dropped_frames = 0
    /\ recording_start = FALSE
    /\ pause_start = FALSE
    /\ frame_count = 0
    /\ pc = "idle"
    /\ last = [op |-> "new", ret |-> "Ok"]
    /\ capturing = FALSE
    /\ should_stop = FALSE
    /\ capThread = "off"
    /\ cbGen = 0
    /\ cbFrame = 0
    /\ nextFrame = 0
    /\ monitoring = FALSE
    /\ inThreads = "off"
    /\ gen = 0
    /\ queue = [g \in Gens |-> <<>>]
    /\ encPc = [g \in Gens |-> "none"]
    /\ encCur = [g \in Gens |-> 0]
    /\ encoded = [g \in Gens |-> 0]
    /\ appended = [g \in Gens |-> <<>>]
    /\ finishCalls = [g \in Gens |-> 0]
    /\ attempted = [g \in Gens |-> 0]
    /\ enqueued = [g \in Gens |-> <<>>]
    /\ capture_target = "None"
    /\ capture_dims = DefaultDims
    /\ now = 0
    /\ start_time = 0
    /\ pause_time = 0
    /\ total_paused = 0

\* ---- a new project: TransformTrack::new, Timeline::default, nothing built,
\* evaluated or exported ----
NormalizedCenter == [x |-> 500, y |-> 500]

NewTrack(ty) == [type |-> ty, is_enabled |-> TRUE, keyframes |-> <<>>]

NewTimeline(d) == [tracks |-> <<>>, duration |-> d, trim_start |-> 0, trim_end |-> <<>>]

NewExport ==
    [pc |-> "new", total_frames |-> 0, frame_rate |-> 1, frame_idx |-> 0,
     calls |-> <<>>, progress |-> <<>>, result |-> "none", cancel_at |-> -1]

ProjectNew ==
    /\ track = NewTrack("Transform")
    /\ timeline = NewTimeline(0)
    /\ built = <<>>
    /\ frame_state = <<>>
    /\ export = NewExport

\* ---- StubEncoder::new, no append failed, the recorder mutex free, no stop
\* thread and no export thread spawned, RenderSettings::default ----
MaxStops == 2
StopIds == 1..MaxStops

\* encoding and frame_count are the fields; starts and appends count the
\* successful start() calls and the successful append_frame() calls since the
\* last of them, calls counts all calls
NewEncoder ==
    [encoding |-> FALSE, frame_count |-> 0, starts |-> 0, appends |-> 0, calls |-> 0]

NewStopThread == [pc |-> "none", accepted |-> 0, stopped |-> 0, event |-> "none"]

DefaultRenderSettings == [output_resolution |-> "Original", output_frame_rate |-> "Original"]

NewExportJob ==
    [pc |-> "none", render_settings |-> DefaultRenderSettings, project |-> <<>>,
     path |-> "none", event |-> "none"]

AuxNew ==
    /\ encoder = NewEncoder
    /\ append_failed = [g \in Gens |-> {}]
    /\ lock = 0
    /\ stop_threads = [k \in StopIds |-> NewStopThread]
    /\ export_job = NewExportJob

Init == CoordinatorNew /\ ProjectNew /\ AuxNew

\* the step enters method o, or returns r from it ("pending": entered, not returned)
Call(o, r) == last' = [op |-> o, ret |-> r]
\* the step is no call and no return of a coordinator method
NoCall == last' = [op |-> "none", ret |-> "none"]

\* ---- state guards of the four methods ----
StartAllowed(s) == s = "Idle"
\* faulty variant: the guard of pause() only excludes a second pause
PauseAllowedUnlessPaused(s) == s # "Paused"
PauseAllowed(s) == s = "Recording"
ResumeAllowed(s) == s = "Paused"
StopAllowed(s) == s \in {"Recording", "Paused"}

\* ---- start() ----
\* faulty variant: the capture backend is started before the encoder thread
StartOrderCaptureFirst == <<"channel", "capture", "spawn", "input", "timing">>
\* the order of the steps of start() after the encoder is initialised
StartOrder == <<"channel", "spawn", "capture", "input", "timing">>

After(s) ==
    LET i == CHOOSE k \in 1..Len(StartOrder) : StartOrder[k] = s
    IN  StartOrder[i + 1]

\* guard, create_dir_all, create_encoder, encoder.start()
StartBegin ==
    /\ pc = "idle"
    /\ IF ~StartAllowed(state)
       THEN /\ Call("start", "InvalidState")
            /\ UNCHANGED <<coord, atomics, capVars, inpVars, chanVars, pc>>
       ELSE \E encOk \in BOOLEAN :
            IF encOk
            THEN /\ gen < MaxStarts
                 /\ pc' = StartOrder[1]
                 /\ Call("start", "pending")
                 /\ UNCHANGED <<coord, atomics, capVars, inpVars, chanVars>>
            ELSE /\ Call("start", "Err")
                 /\ UNCHANGED <<coord, atomics, capVars, inpVars, chanVars, pc>>
    /\ UNCHANGED <<cfgVars, timers, now, projVars, auxVars>>

\* sync_channel, frame_sender = Some(tx.clone()), counters reset
StartChannel ==
    /\ pc = "channel"
    /\ gen' = gen + 1
    /\ frame_sender' = gen + 1
    /\ shared_frame_count' = 0
    /\ dropped_frames' = 0
    /\ is_paused' = FALSE
    /\ pc' = After("channel")
    /\ NoCall
    /\ UNCHANGED <<state, encoder_thread, recording_start, pause_start, frame_count,
                   capVars, inpVars, queue, encPc, encCur, encoded, appended,
                   finishCalls, attempted, enqueued>>
    /\ UNCHANGED <<cfgVars, timers, now, projVars, auxVars>>

\* thread::spawn of the encoder thread, which owns rx and the encoder
StartSpawn ==
    /\ pc = "spawn"
    /\ encPc' = [encPc EXCEPT ![gen] = "recv"]
    /\ encoder_thread' = gen
    /\ pc' = After("spawn")
    /\ NoCall
    /\ UNCHANGED <<state, frame_sender, recording_start, pause_start, frame_count,
                   atomics, capVars, inpVars, gen, queue, encCur, encoded, appended,
                   finishCalls, attempted, enqueued>>
    /\ UNCHANGED <<cfgVars, timers, now, projVars, auxVars>>

\* capture.start_capture(target, config, callback owning tx)
StartCapture ==
    /\ pc = "capture"
    /\ \E ok \in BOOLEAN :
         IF ~capturing /\ ok
         THEN /\ capturing' = TRUE
              /\ should_stop' = FALSE
              /\ capThread' = "idle"
              /\ cbGen' = gen
              /\ pc' = After("capture")
              /\ NoCall
              /\ UNCHANGED <<cbFrame, nextFrame>>
         ELSE \* AlreadyCapturing or a platform error: the callback is dropped
              /\ pc' = "idle"
              /\ Call("start", "Err")
              /\ UNCHANGED capVars
    /\ UNCHANGED <<coord, atomics, inpVars, chanVars>>
    /\ UNCHANGED <<cfgVars, timers, now, projVars, auxVars>>

\* input_monitor.start_monitoring()?
StartInput ==
    /\ pc = "input"
    /\ \E ok \in BOOLEAN :
         IF ~monitoring /\ ok
         THEN /\ monitoring' = TRUE
              /\ inThreads' = "run"
              /\ pc' = After("input")
              /\ NoCall
         ELSE /\ pc' = "idle"
              /\ Call("start", "Err")
              /\ UNCHANGED inpVars
    /\ UNCHANGED <<coord, atomics, capVars, chanVars>>
    /\ UNCHANGED <<cfgVars, timers, now, projVars, auxVars>>

\* timing fields, state = Recording, Ok(())
StartTiming ==
    /\ pc = "timing"
    /\ recording_start' = TRUE
    /\ pause_start' = FALSE
    /\ frame_count' = 0
    /\ state' = "Recording"
    /\ pc' = "idle"
    /\ start_time' = now
    /\ total_paused' = 0
    /\ pause_time' = 0
    /\ Call("start", "Ok")
    /\ UNCHANGED <<frame_sender, encoder_thread, atomics, capVars, inpVars, chanVars>>
    /\ UNCHANGED <<cfgVars, now, projVars, auxVars>>

\* ---- pause() ----
Pause ==
    /\ pc = "idle"
    /\ IF PauseAllowed(state)
       THEN /\ is_paused' = TRUE
            /\ pause_start' = TRUE
            /\ state' = "Paused"
            /\ pause_time' = now
            /\ Call("pause", "Ok")
            /\ UNCHANGED <<frame_sender, encoder_thread, recording_start, frame_count,
                           shared_frame_count, dropped_frames, start_time, total_paused>>
       ELSE /\ Call("pause", "InvalidState")
            /\ UNCHANGED <<coord, atomics, timers>>
    /\ UNCHANGED <<capVars, inpVars, chanVars, pc, cfgVars, now, projVars, auxVars>>

\* ---- resume() ----
\* faulty variant: resume() clears the pause but leaves the state Paused
ResumeKeepsState ==
    /\ pc = "idle"
    /\ IF ResumeAllowed(state)
       THEN /\ pause_start' = FALSE
            /\ is_paused' = FALSE
            /\ state' = "Paused"
            /\ total_paused' = total_paused + (IF pause_start THEN now - pause_time ELSE 0)
            /\ pause_time' = 0
            /\ Call("resume", "Ok")
            /\ UNCHANGED <<frame_sender, encoder_thread, recording_start, frame_count,
                           shared_frame_count, dropped_frames, start_time>>
       ELSE /\ Call("resume", "InvalidState")
            /\ UNCHANGED <<coord, atomics, timers>>
    /\ UNCHANGED <<capVars, inpVars, chanVars, pc, cfgVars, now, projVars, auxVars>>

Resume ==
    /\ pc = "idle"
    /\ IF ResumeAllowed(state)
       THEN /\ pause_start' = FALSE
            /\ is_paused' = FALSE
            /\ state' = "Recording"
            /\ total_paused' = total_paused + (IF pause_start THEN now - pause_time ELSE 0)
            /\ pause_time' = 0
            /\ Call("resume", "Ok")
            /\ UNCHANGED <<frame_sender, encoder_thread, recording_start, frame_count,
                           shared_frame_count, dropped_frames, start_time>>
       ELSE /\ Call("resume", "InvalidState")
            /\ UNCHANGED <<coord, atomics, timers>>
    /\ UNCHANGED <<capVars, inpVars, chanVars, pc, cfgVars, now, projVars, auxVars>>

\* ---- the channel (mpsc::sync_channel) ----
\* holders of a SyncSender of generation g: the coordinator's frame_sender and
\* the on_frame callback.  (The local tx of start() is moved into the callback
\* at the start_capture call; until then frame_sender holds a clone.)
Senders(g) ==
    (IF frame_sender = g THEN {"coordinator"} ELSE {}) \cup
    (IF cbGen = g THEN {"callback"} ELSE {})

\* the receiver lives in the encoder thread until the thread returns
ReceiverAlive(g) == encPc[g] \notin {"done", "failed"}

\* tx.try_send(frame) succeeds unless the channel is full or disconnected
\* faulty variant: a send that ignores the capacity
TrySendUnbounded(q, alive) == alive
TrySendAccepts(q, alive) == alive /\ Len(q) < Capacity

\* faulty variant: the newest frame is put in front
EnqueueFront(q, f) == <<f>> \o q
Enqueue(q, f) == Append(q, f)

\* dropped.fetch_add(1) when try_send returned an error
\* faulty variant: a refused frame is not counted
DroppedNotCounted(d, accepted) == d
DroppedAfter(d, accepted) == IF accepted THEN d ELSE d + 1

\* rx.recv() returns Err once the queue is empty and every sender is dropped
\* faulty variant: the loop ends as soon as the senders are gone
RecvStopsWithSenders(q, senders) == senders = {}
RecvDisconnected(q, senders) == q = <<>> /\ senders = {}

\* ---- capture thread (CaptureHandler::on_frame_arrived + the callback) ----
\* a frame arrives: should_stop check, then the callback reads is_paused
CbBegin ==
    /\ capThread = "idle"
    /\ ~should_stop
    /\ nextFrame < MaxFrames
    /\ nextFrame' = nextFrame + 1
    /\ IF is_paused
       THEN UNCHANGED <<capThread, cbFrame>>
       ELSE /\ capThread' = "send"
            /\ cbFrame' = nextFrame + 1
    /\ NoCall
    /\ UNCHANGED <<coord, atomics, capturing, should_stop, cbGen, inpVars, chanVars, pc>>
    /\ UNCHANGED <<cfgVars, timers, now, projVars, auxVars>>

\* the callback builds the VideoFrame and calls try_send
CbSend ==
    /\ capThread = "send"
    /\ LET g == cbGen
           ok == TrySendAccepts(queue[g], ReceiverAlive(g))
       IN  /\ attempted' = [attempted EXCEPT ![g] = @ + 1]
           /\ queue' = [queue EXCEPT ![g] = IF ok THEN Enqueue(@, cbFrame) ELSE @]
           /\ enqueued' = [enqueued EXCEPT ![g] = IF ok THEN Append(@, cbFrame) ELSE @]
           /\ dropped_frames' = DroppedAfter(dropped_frames, ok)
    /\ capThread' = "idle"
    /\ cbFrame' = 0
    /\ NoCall
    /\ UNCHANGED <<coord, is_paused, shared_frame_count, capturing, should_stop, cbGen,
                   nextFrame, inpVars, gen, encPc, encCur, encoded, appended,
                   finishCalls, pc>>
    /\ UNCHANGED <<cfgVars, timers, now, projVars, auxVars>>

\* the platform capture thread does not react to the stop request and never
\* exits (recorder.rs:370: "control.stop() can block if the capture thread is stuck")
CaptureHang ==
    /\ capThread = "idle"
    /\ should_stop
    /\ capThread' = "stuck"
    /\ NoCall
    /\ UNCHANGED <<coord, atomics, capturing, should_stop, cbGen, cbFrame, nextFrame,
                   inpVars, chanVars, pc>>
    /\ UNCHANGED <<cfgVars, timers, now, projVars, auxVars>>

\* ---- encoder thread of generation g ----
EncRecv(g) ==
    /\ encPc[g] = "recv"
    /\ queue[g] # <<>>
    /\ encCur' = [encCur EXCEPT ![g] = Head(queue[g])]
    /\ queue' = [queue EXCEPT ![g] = Tail(@)]
    /\ encPc' = [encPc EXCEPT ![g] = "append"]
    /\ NoCall
    /\ UNCHANGED <<coord, atomics, capVars, inpVars, gen, encoded, appended,
                   finishCalls, attempted, enqueued, pc>>
    /\ UNCHANGED <<cfgVars, timers, now, projVars, auxVars>>

\* encoder.append_frame(&frame) (an error is only logged); encoded += 1; store
EncAppend(g) ==
    /\ encPc[g] = "append"
    /\ appended' = [appended EXCEPT ![g] = Append(@, encCur[g])]
    /\ encoded' = [encoded EXCEPT ![g] = @ + 1]
    /\ shared_frame_count' = encoded[g] + 1
    /\ encCur' = [encCur EXCEPT ![g] = 0]
    /\ encPc' = [encPc EXCEPT ![g] = "recv"]
    /\ NoCall
    /\ UNCHANGED <<coord, is_paused, dropped_frames, capVars, inpVars, gen, queue,
                   finishCalls, attempted, enqueued, pc>>
    /\ UNCHANGED <<cfgVars, timers, now, projVars, auxVars>>


\* encoder.append_frame(&frame) returns Err: the error is logged, and then
\* encoded += 1 and the store follow as after a successful append
EncAppendErr(g) ==
    /\ encPc[g] = "append"
    /\ append_failed' = [append_failed EXCEPT ![g] = @ \cup {encCur[g]}]
    /\ appended' = [appended EXCEPT ![g] = Append(@, encCur[g])]
    /\ encoded' = [encoded EXCEPT ![g] = @ + 1]
    /\ shared_frame_count' = encoded[g] + 1
    /\ encCur' = [encCur EXCEPT ![g] = 0]
    /\ encPc' = [encPc EXCEPT ![g] = "recv"]
    /\ NoCall
    /\ UNCHANGED <<coord, is_paused, dropped_frames, capVars, inpVars, gen, queue,
                   finishCalls, attempted, enqueued, pc>>
    /\ UNCHANGED <<cfgVars, timers, now, projVars>>
    /\ UNCHANGED <<encoder, lock, stop_threads, export_job>>

\* recv() returned Err: leave the loop
EncClosed(g) ==
    /\ encPc[g] = "recv"
    /\ RecvDisconnected(queue[g], Senders(g))
    /\ encPc' = [encPc EXCEPT ![g] = "finish"]
    /\ NoCall
    /\ UNCHANGED <<coord, atomics, capVars, inpVars, gen, queue, encCur, encoded,
                   appended, finishCalls, attempted, enqueued, pc>>
    /\ UNCHANGED <<cfgVars, timers, now, projVars, auxVars>>

\* encoder.finish(), then the thread returns Ok((encoded, path)) or Err
EncFinish(g) ==
    /\ encPc[g] = "finish"
    /\ finishCalls' = [finishCalls EXCEPT ![g] = @ + 1]
    /\ \E ok \in BOOLEAN : encPc' = [encPc EXCEPT ![g] = IF ok THEN "done" ELSE "failed"]
    /\ NoCall
    /\ UNCHANGED <<coord, atomics, capVars, inpVars, gen, queue, encCur, encoded,
                   appended, attempted, enqueued, pc>>
    /\ UNCHANGED <<cfgVars, timers, now, projVars, auxVars>>

\* ---- input monitor threads ----
\* the poll thread or the hook thread gets stuck
InputHang ==
    /\ inThreads = "run"
    /\ \E k \in {"poll_stuck", "hook_stuck"} : inThreads' = k
    /\ NoCall
    /\ UNCHANGED <<coord, atomics, capVars, monitoring, chanVars, pc>>
    /\ UNCHANGED <<cfgVars, timers, now, projVars, auxVars>>

\* stop_monitoring() joins the poll thread without a deadline and the hook
\* thread with a deadline of 2 s
StopMonitoringReturns == inThreads # "poll_stuck"

\* ---- stop() ----
\* guard, state = Stopping, duration, frame_sender = None
StopBegin ==
    /\ pc = "idle"
    /\ IF StopAllowed(state)
       THEN /\ state' = "Stopping"
            /\ frame_sender' = 0
            /\ pc' = "stop_capture"
            /\ Call("stop", "pending")
            /\ UNCHANGED <<encoder_thread, recording_start, pause_start, frame_count>>
       ELSE /\ Call("stop", "InvalidState")
            /\ UNCHANGED <<coord, pc>>
    /\ UNCHANGED <<atomics, capVars, inpVars, chanVars>>
    /\ UNCHANGED <<cfgVars, timers, now, projVars, auxVars>>

\* capture.stop_capture(): NotCapturing, or should_stop.store(true)
StopCaptureSignal ==
    /\ pc = "stop_capture"
    /\ IF capturing
       THEN /\ should_stop' = TRUE
            /\ pc' = "stop_capture_join"
       ELSE /\ pc' = "stop_encoder"
            /\ UNCHANGED should_stop
    /\ NoCall
    /\ UNCHANGED <<coord, atomics, capturing, capThread, cbGen, cbFrame, nextFrame,
                   inpVars, chanVars>>
    /\ UNCHANGED <<cfgVars, timers, now, projVars, auxVars>>

\* control.stop() waits for the capture thread; the handler and with it the
\* callback and its sender are dropped; flags = None; capturing = false
StopCaptureJoin ==
    /\ pc = "stop_capture_join"
    /\ capThread = "idle"
    /\ capThread' = "off"
    /\ cbGen' = 0
    /\ capturing' = FALSE
    /\ pc' = "stop_encoder"
    /\ NoCall
    /\ UNCHANGED <<coord, atomics, should_stop, cbFrame, nextFrame, inpVars, chanVars>>
    /\ UNCHANGED <<cfgVars, timers, now, projVars, auxVars>>

\* the encoder thread finished before the deadline: join it
StopEncoderJoin ==
    /\ pc = "stop_encoder"
    /\ encoder_thread # 0
    /\ encPc[encoder_thread] \in {"done", "failed"}
    /\ frame_count' = IF encPc[encoder_thread] = "done"
                      THEN encoded[encoder_thread]
                      ELSE shared_frame_count
    /\ encoder_thread' = 0
    /\ pc' = "stop_input"
    /\ NoCall
    /\ UNCHANGED <<state, frame_sender, recording_start, pause_start, atomics,
                   capVars, inpVars, chanVars>>
    /\ UNCHANGED <<cfgVars, timers, now, projVars, auxVars>>

\* the 5 s deadline passed first: the thread is abandoned
StopEncoderTimeout ==
    /\ pc = "stop_encoder"
    /\ encoder_thread # 0
    /\ encPc[encoder_thread] \notin {"done", "failed"}
    /\ frame_count' = shared_frame_count
    /\ encoder_thread' = 0
    /\ pc' = "stop_input"
    /\ NoCall
    /\ UNCHANGED <<state, frame_sender, recording_start, pause_start, atomics,
                   capVars, inpVars, chanVars>>
    /\ UNCHANGED <<cfgVars, timers, now, projVars, auxVars>>

\* input_monitor.stop_monitoring().unwrap_or_default(), state = Completed, Ok(result)
StopInput ==
    /\ pc = "stop_input"
    /\ monitoring => StopMonitoringReturns
    /\ monitoring' = FALSE
    /\ inThreads' = IF monitoring THEN "off" ELSE inThreads
    /\ state' = "Completed"
    /\ pc' = "idle"
    /\ Call("stop", "Ok")
    /\ UNCHANGED <<frame_sender, encoder_thread, recording_start, pause_start,
                   frame_count, atomics, capVars, chanVars>>
    /\ UNCHANGED <<cfgVars, timers, now, projVars, auxVars>>

\* ---- reset() ----
\* faulty variant: reset() keeps the capture target
ResetKeepsTarget ==
    /\ pc = "idle"
    /\ monitoring => StopMonitoringReturns
    /\ monitoring' = FALSE
    /\ inThreads' = IF monitoring THEN "off" ELSE inThreads
    /\ state' = "Idle"
    /\ recording_start' = FALSE
    /\ pause_start' = FALSE
    /\ frame_count' = 0
    /\ frame_sender' = 0
    /\ encoder_thread' = 0
    /\ is_paused' = FALSE
    /\ shared_frame_count' = 0
    /\ dropped_frames' = 0
    /\ start_time' = 0
    /\ pause_time' = 0
    /\ total_paused' = 0
    /\ Call("reset", "Ok")
    /\ UNCHANGED <<capVars, chanVars, pc, cfgVars, now, projVars, auxVars>>

Reset ==
    /\ pc = "idle"
    /\ monitoring => StopMonitoringReturns
    /\ monitoring' = FALSE
    /\ inThreads' = IF monitoring THEN "off" ELSE inThreads
    /\ state' = "Idle"
    /\ recording_start' = FALSE
    /\ pause_start' = FALSE
    /\ frame_count' = 0
    /\ frame_sender' = 0
    /\ encoder_thread' = 0
    /\ is_paused' = FALSE
    /\ shared_frame_count' = 0
    /\ dropped_frames' = 0
    /\ start_time' = 0
    /\ pause_time' = 0
    /\ total_paused' = 0
    /\ capture_target' = "None"
    /\ Call("reset", "Ok")
    /\ UNCHANGED <<capVars, chanVars, pc, capture_dims, now, projVars, auxVars>>

\* ---- set_target(), set_capture_dimensions(), status(), elapsed() and the clock ----
Targets == {"Display", "Window", "Region"}

Dims == {DefaultDims, [width |-> 1280, height |-> 720]}

\* set_target() has no guard on the state and no error result
SetTarget(t) ==
    /\ pc = "idle"
    /\ capture_target' = t
    /\ Call("set_target", "Ok")
    /\ UNCHANGED <<coord, atomics, capVars, inpVars, chanVars, pc, capture_dims, timers, now, projVars, auxVars>>

\* set_capture_dimensions() has no guard on the state and no error result
SetCaptureDimensions(d) ==
    /\ pc = "idle"
    /\ capture_dims' = d
    /\ Call("set_capture_dimensions", "Ok")
    /\ UNCHANGED <<coord, atomics, capVars, inpVars, chanVars, pc, capture_target, timers, now, projVars, auxVars>>

Max(a, b) == IF a < b THEN b ELSE a

Min(a, b) == IF a < b THEN a ELSE b

\* faulty variant: the pause in progress is not subtracted
ElapsedWithoutCurrentPause ==
    IF recording_start THEN Max((now - start_time) - total_paused, 0) ELSE 0
\* elapsed(): both clock readings are taken at the same tick
Elapsed ==
    IF recording_start
    THEN Max((now - start_time) - (total_paused + (IF pause_start THEN now - pause_time ELSE 0)), 0)
    ELSE 0

\* status(): the live frame count while Recording or Paused
StatusFrameCount ==
    IF state \in {"Recording", "Paused"} THEN shared_frame_count ELSE frame_count

\* the get_recording_status command: it takes the recorder mutex, which the
\* thread running a coordinator method holds until the method returns
GetRecordingStatus ==
    /\ pc = "idle"
    /\ Call("status", [state |-> state, elapsed |-> Elapsed, frame_count |-> StatusFrameCount])
    /\ UNCHANGED <<coord, atomics, capVars, inpVars, chanVars, pc, cfgVars, timers, now, projVars, auxVars>>

\* the clock advances by one tick
Tick ==
    /\ now < MaxTime
    /\ now' = now + 1
    /\ NoCall
    /\ UNCHANGED <<coord, atomics, capVars, inpVars, chanVars, pc, cfgVars, timers, projVars, auxVars>>

\* ---- tracks (core/track.rs) and the tracks of a timeline (core/timeline.rs) ----
\* the ids (Uuid) and the times that keyframes and tracks are given
Ids == {1, 2}

KfTimes == {0, 1}

\* the track types that hold a keyframe vector
TrackTypes == {"Transform", "Ripple", "Keystroke"}

\* TransformKeyframe::identity(t) carrying the given id
IdentityKeyframe(i, t) == [id |-> i, time |-> t, zoom |-> 1000, center |-> NormalizedCenter]

\* Vec::insert of k behind the last element whose time is not larger
RECURSIVE InsertByTime(_, _)
InsertByTime(kfs, k) ==
    IF kfs = <<>> THEN <<k>>
    ELSE IF kfs[Len(kfs)].time <= k.time THEN Append(kfs, k)
    ELSE Append(InsertByTime(SubSeq(kfs, 1, Len(kfs) - 1), k), kfs[Len(kfs)])

RECURSIVE StableSort(_)
StableSort(kfs) ==
    IF kfs = <<>> THEN <<>>
    ELSE InsertByTime(StableSort(SubSeq(kfs, 1, Len(kfs) - 1)), kfs[Len(kfs)])

\* faulty variant: the vector is left in insertion order
NotSorted(kfs) == kfs
\* keyframes.sort_by(|a, b| a.time.partial_cmp(&b.time).unwrap()): a stable sort
SortByTime(kfs) == StableSort(kfs)

\* keyframes.iter().position(|k| k.id == id), 0 = None
Position(kfs, i) ==
    IF \E n \in 1..Len(kfs) : kfs[n].id = i
    THEN CHOOSE n \in 1..Len(kfs) : kfs[n].id = i /\ \A m \in 1..(n - 1) : kfs[m].id # i
    ELSE 0

\* retain(|k| k.id != id)
Retain(kfs, i) == SelectSeq(kfs, LAMBDA k : k.id # i)

\* faulty variant: the updated keyframe is pushed, the old one stays
UpdatedByPush(kfs, k) ==
    IF Position(kfs, k.id) # 0 THEN SortByTime(Append(kfs, k)) ELSE kfs
\* update_keyframe: replace the first keyframe with the same id, then sort
Updated(kfs, k) ==
    IF Position(kfs, k.id) # 0
    THEN SortByTime([kfs EXCEPT ![Position(kfs, k.id)] = k])
    ELSE kfs

\* the step is a call of a method of the track or of the timeline
Edit(o, a) == last' = [op |-> o, ret |-> "Ok", arg |-> a]

AddKeyframe(k) ==
    /\ Len(track.keyframes) < MaxKeyframes
    /\ track' = [track EXCEPT !.keyframes = SortByTime(Append(@, k))]
    /\ Edit("add_keyframe", k.id)
    /\ UNCHANGED <<coord, atomics, capVars, inpVars, chanVars, pc, cfgVars, timers, now, auxVars>>
    /\ UNCHANGED <<timeline, built, frame_state, export>>

RemoveKeyframe(i) ==
    /\ track' = [track EXCEPT !.keyframes = Retain(@, i)]
    /\ Edit("remove_keyframe", i)
    /\ UNCHANGED <<coord, atomics, capVars, inpVars, chanVars, pc, cfgVars, timers, now, auxVars>>
    /\ UNCHANGED <<timeline, built, frame_state, export>>

\* only TransformTrack has update_keyframe
UpdateKeyframe(k) ==
    /\ track.type = "Transform"
    /\ track' = [track EXCEPT !.keyframes = Updated(@, k)]
    /\ Edit("update_keyframe", k.id)
    /\ UNCHANGED <<coord, atomics, capVars, inpVars, chanVars, pc, cfgVars, timers, now, auxVars>>
    /\ UNCHANGED <<timeline, built, frame_state, export>>

\* an AnyTrack of the timeline: its id and its is_enabled flag
AnyTrack(i, e) == [id |-> i, is_enabled |-> e]

AddTrack(t) ==
    /\ Len(timeline.tracks) < MaxTracks
    /\ timeline' = [timeline EXCEPT !.tracks = Append(@, t)]
    /\ Edit("add_track", t.id)
    /\ UNCHANGED <<coord, atomics, capVars, inpVars, chanVars, pc, cfgVars, timers, now, auxVars>>
    /\ UNCHANGED <<track, built, frame_state, export>>

RemoveTrack(i) ==
    /\ timeline' = [timeline EXCEPT !.tracks = Retain(@, i)]
    /\ Edit("remove_track", i)
    /\ UNCHANGED <<coord, atomics, capVars, inpVars, chanVars, pc, cfgVars, timers, now, auxVars>>
    /\ UNCHANGED <<track, built, frame_state, export>>

UpdateTrack(t) ==
    /\ timeline' = [timeline EXCEPT !.tracks =
                        IF Position(@, t.id) # 0 THEN [@ EXCEPT ![Position(@, t.id)] = t] ELSE @]
    /\ Edit("update_track", t.id)
    /\ UNCHANGED <<coord, atomics, capVars, inpVars, chanVars, pc, cfgVars, timers, now, auxVars>>
    /\ UNCHANGED <<track, built, frame_state, export>>

\* ---- TransformKeyframe::new (core/keyframe.rs) and the smart-zoom generator
\* (core/generators.rs); zoom and coordinates in thousandths, times in ms ----
\* f64::clamp
Clamp(v, lo, hi) == IF v < lo THEN lo ELSE IF v > hi THEN hi ELSE v

\* NormalizedPoint::clamped
Clamped(c) == [x |-> Clamp(c.x, 0, 1000), y |-> Clamp(c.y, 0, 1000)]

\* TransformKeyframe::new, with the id that Uuid::new_v4 returns
TransformKeyframeNew(i, t, z, c) ==
    [id |-> i, time |-> t, zoom |-> Max(z, 1000), center |-> Clamped(c)]

\* 0.5 / zoom
HalfCrop(z) == (500 * 1000) \div z

\* faulty variant: the center is left as it is
ClampCenterOff(c, z) == c
\* the clamp of the center to the crop that the zoom allows
ClampCenter(c, z) ==
    [x |-> Clamp(c.x, HalfCrop(z), 1000 - HalfCrop(z)),
     y |-> Clamp(c.y, HalfCrop(z), 1000 - HalfCrop(z))]

\* SmartZoomSettings::default (ms and thousandths)
DefaultSettings ==
    [min_zoom |-> 2000, focusing_duration |-> 500, idle_timeout |-> 1000,
     transition_duration |-> 600, max_zoom |-> 8000, default_zoom |-> 4000,
     target_area_coverage |-> 400]

\* the keyframes pushed for a single session, which is the final one
SessionKeyframes(session, total_duration, settings) ==
    LET zoom_in_start == Max(Max(session.start_time - settings.focusing_duration, 0 + 100), 0)
        hold_end == session.end_time + settings.idle_timeout
        zoom_out_start == Max(total_duration - settings.transition_duration - 100, hold_end)
    IN  << TransformKeyframeNew(1, zoom_in_start, settings.min_zoom, NormalizedCenter),
           TransformKeyframeNew(2, session.start_time, session.zoom, session.center),
           TransformKeyframeNew(3, zoom_out_start, session.zoom, session.center),
           TransformKeyframeNew(4, total_duration - 100, settings.min_zoom, NormalizedCenter) >>

\* the post-pass: times clamped to the video, centers clamped when zoomed in
PostPass(kfs, total_duration) ==
    [n \in 1..Len(kfs) |->
        [kfs[n] EXCEPT !.time = Clamp(@, 0, total_duration),
                       !.center = IF kfs[n].zoom > 1000 THEN ClampCenter(@, kfs[n].zoom) ELSE @]]

\* dedup_by(|b, a| (b.time - a.time).abs() < 0.01): a keyframe closer than
\* 10 ms to the last one kept is removed
RECURSIVE Dedup(_)
Dedup(kfs) ==
    IF Len(kfs) <= 1 THEN kfs
    ELSE LET init == Dedup(SubSeq(kfs, 1, Len(kfs) - 1))
             k == kfs[Len(kfs)]
         IN  IF k.time - init[Len(init)].time < 10 THEN init ELSE Append(init, k)

\* faulty variant: the keyframes are sorted and all of them kept
OptimizeKeyframesSortOnly(kfs) == SortByTime(kfs)
\* optimize_keyframes
OptimizeKeyframes(kfs) == Dedup(SortByTime(kfs))

\* generate_zoom_keyframes for one session
GenerateZoomKeyframes(session, total_duration, settings) ==
    OptimizeKeyframes(PostPass(SessionKeyframes(session, total_duration, settings), total_duration))

\* requested zooms, coordinates and video durations
Zooms == {500, 1000, 2000, 4000}

Coords == {-500, 0, 125, 250, 500, 750, 1000, 1500}

Durations == {1000, 5000}

\* a request: the zoom and center asked for, at a moment of a video
Requests ==
    [zoom : Zooms, center : [x : Coords, y : Coords], total_duration : Durations]

\* nothing built yet for request r
Requested(r) == [request |-> r, by |-> "none", keyframes |-> <<>>]

\* the constructor is called with the requested zoom and center
BuildNew ==
    /\ built # <<>>
    /\ built.by = "none"
    /\ built' = [built EXCEPT !.by = "new",
                     !.keyframes = <<TransformKeyframeNew(1, 1000, built.request.zoom,
                                                         built.request.center)>>]
    /\ NoCall
    /\ UNCHANGED <<coord, atomics, capVars, inpVars, chanVars, pc, cfgVars, timers, now, auxVars>>
    /\ UNCHANGED <<track, timeline, frame_state, export>>

\* the generator runs on a session with the requested zoom and center
BuildGenerated ==
    /\ built # <<>>
    /\ built.by = "none"
    /\ built' = [built EXCEPT !.by = "generator",
                     !.keyframes = GenerateZoomKeyframes(
                         [start_time |-> 1000, end_time |-> 2000,
                          zoom |-> built.request.zoom, center |-> built.request.center],
                         built.request.total_duration, DefaultSettings)]
    /\ NoCall
    /\ UNCHANGED <<coord, atomics, capVars, inpVars, chanVars, pc, cfgVars, timers, now, auxVars>>
    /\ UNCHANGED <<track, timeline, frame_state, export>>



\* each keyframe gets its own id
Numbered(v) == [n \in 1..Len(v) |-> [v[n] EXCEPT !.id = n]]

\* ---- generate_smart_zoom over the sessions that cluster_activities returns ----
MaxSessions == 2

\* calculate_session_zoom, from the larger side of the work area
CalculateSessionZoom(area_size, settings) ==
    IF area_size <= 10 THEN settings.default_zoom
    ELSE Clamp((settings.target_area_coverage * 1000)
                   \div Min(area_size, settings.target_area_coverage),
               settings.min_zoom, settings.max_zoom)

\* a keyframe before its id is drawn
Keyframe(t, z, c) == TransformKeyframeNew(0, t, z, c)

\* the keyframes pushed in the loop for session i
LoopKeyframes(sessions, i, total_duration, settings) ==
    LET session == sessions[i]
        last_session_end == IF i = 1 THEN 0 ELSE sessions[i - 1].end_time
        zoom_in_start == Max(Max(session.start_time - settings.focusing_duration,
                                 last_session_end + 100), 0)
        hold_end == session.end_time + settings.idle_timeout
        head == << Keyframe(zoom_in_start, settings.min_zoom, NormalizedCenter),
                   Keyframe(session.start_time, session.zoom, session.center) >>
    IN  IF i < Len(sessions)
        THEN LET time_between == sessions[i + 1].start_time - session.end_time
             IN  IF time_between < settings.idle_timeout + settings.transition_duration
                 THEN LET move_start == session.end_time + Min((time_between * 3) \div 10, 1000)
                      IN  Append(head, Keyframe(move_start, session.zoom, session.center))
                 ELSE LET zoom_out_start ==
                              Max(sessions[i + 1].start_time - settings.focusing_duration
                                      - settings.transition_duration, hold_end)
                      IN  head \o << Keyframe(zoom_out_start, session.zoom, session.center),
                                     Keyframe(zoom_out_start + settings.transition_duration,
                                              settings.min_zoom, NormalizedCenter) >>
        ELSE LET zoom_out_start ==
                     Max(total_duration - settings.transition_duration - 100, hold_end)
             IN  head \o << Keyframe(zoom_out_start, session.zoom, session.center),
                            Keyframe(total_duration - 100, settings.min_zoom, NormalizedCenter) >>

\* the keyframes pushed for the sessions 1..n
RECURSIVE PushedKeyframes(_, _, _, _)
PushedKeyframes(sessions, n, total_duration, settings) ==
    IF n = 0 THEN <<>>
    ELSE PushedKeyframes(sessions, n - 1, total_duration, settings)
            \o LoopKeyframes(sessions, n, total_duration, settings)

\* generate_zoom_keyframes for any sessions
GenerateSessionsKeyframes(sessions, total_duration, settings) ==
    IF sessions = <<>> THEN <<>>
    ELSE OptimizeKeyframes(
             PostPass(Numbered(PushedKeyframes(sessions, Len(sessions), total_duration, settings)),
                      total_duration))

\* generate_smart_zoom: the zoom of each session, the keyframes, and the
\* track they are added to one by one
RECURSIVE AddAll(_, _)
AddAll(kfs, added) ==
    IF added = <<>> THEN kfs
    ELSE AddAll(SortByTime(Append(kfs, Head(added))), Tail(added))

GenerateSmartZoom(data, settings) ==
    LET sessions == [n \in 1..Len(data.sessions) |->
                        [start_time |-> data.sessions[n].start_time,
                         end_time |-> data.sessions[n].end_time,
                         center |-> data.sessions[n].center,
                         zoom |-> CalculateSessionZoom(data.sessions[n].area_size, settings)]]
    IN  AddAll(<<>>, GenerateSessionsKeyframes(sessions, data.duration, settings))

\* the track is generated from the requested mouse data
BuildSmartZoom ==
    /\ built # <<>>
    /\ built.by = "none"
    /\ built' = [built EXCEPT !.by = "smart_zoom",
                     !.keyframes = GenerateSmartZoom(built.request, DefaultSettings)]
    /\ NoCall
    /\ UNCHANGED <<coord, atomics, capVars, inpVars, chanVars, pc, cfgVars, timers, now, auxVars>>
    /\ UNCHANGED <<track, timeline, frame_state, export>>

\* ---- generate_ripples (core/generators.rs); times in ms ----
MaxClicks == 3

ClickTypes == {"LeftDown", "RightDown", "DoubleClick"}

ClickTimes == {0, 1000, 1020, 2000}

\* min_interval of the settings: the default 0.1 s, and a long one
MinIntervals == {100, 1500}

ClickEvents == [time : ClickTimes, click_type : ClickTypes]

\* the click vectors of at most n clicks
RECURSIVE ClickVectors(_)
ClickVectors(n) ==
    IF n = 0 THEN {<<>>}
    ELSE ClickVectors(n - 1)
            \cup {Append(v, c) : v \in {w \in ClickVectors(n - 1) : Len(w) = n - 1},
                                 c \in ClickEvents}

\* faulty variant: last_time keeps its value
LastTimeKept(last_time, click) == last_time
\* last_time = click.time, after a click was emitted
LastTimeAfter(last_time, click) == click.time

\* the loop of generate_ripples over the clicks, from the left: the track
\* so far and last_time
RECURSIVE RippleLoop(_, _)
RippleLoop(clicks, min_interval) ==
    IF clicks = <<>> THEN [keyframes |-> <<>>, last_time |-> -1000]
    ELSE LET before == RippleLoop(SubSeq(clicks, 1, Len(clicks) - 1), min_interval)
             click == clicks[Len(clicks)]
         IN  IF click.click_type # "LeftDown" /\ click.click_type # "DoubleClick"
             THEN before
             ELSE IF click.time - before.last_time < min_interval
             THEN before
             ELSE [keyframes |->
                       SortByTime(Append(before.keyframes,
                                         [id |-> Len(before.keyframes) + 1, time |-> click.time])),
                   last_time |-> LastTimeAfter(before.last_time, click)]

GenerateRipples(clicks, min_interval) == RippleLoop(clicks, min_interval).keyframes

\* the track is generated from the requested clicks
BuildRipples ==
    /\ built # <<>>
    /\ built.by = "none"
    /\ built' = [built EXCEPT !.by = "ripples",
                     !.keyframes = GenerateRipples(built.request.clicks,
                                                   built.request.min_interval)]
    /\ NoCall
    /\ UNCHANGED <<coord, atomics, capVars, inpVars, chanVars, pc, cfgVars, timers, now, auxVars>>
    /\ UNCHANGED <<track, timeline, frame_state, export>>

\* ---- FrameEvaluator::evaluate_transform (core/evaluator.rs); every keyframe
\* has easing Linear, values in thousandths, times in ms ----
\* TransformState of a track that is absent, disabled or empty
IdentityState == [zoom |-> 1000, center |-> NormalizedCenter, velocity |-> 0]

\* TransformState at a keyframe
StateAt(k) == [zoom |-> k.zoom, center |-> k.center, velocity |-> 0]

\* find_bounding_keyframes: the binary search, from bounds lo and hi
RECURSIVE Bounding(_, _, _, _)
Bounding(kfs, t, lo, hi) ==
    IF lo < hi - 1
    THEN LET mid == (lo + hi) \div 2
         IN  IF kfs[mid].time <= t THEN Bounding(kfs, t, mid, hi) ELSE Bounding(kfs, t, lo, mid)
    ELSE <<lo, hi>>

\* a + (b - a) * amount, the amount being num / den
Lerp(a, b, num, den) == a + ((b - a) * num) \div den

\* TransformValue::interpolated
Interpolated(from, to, num, den) ==
    [zoom |-> Lerp(from.zoom, to.zoom, num, den),
     center |-> [x |-> Lerp(from.center.x, to.center.x, num, den),
                 y |-> Lerp(from.center.y, to.center.y, num, den)]]

\* TransformValue::interpolated_for_window_mode: the anchor center * zoom is
\* interpolated and divided by the interpolated zoom
InterpolatedForWindowMode(from, to, num, den) ==
    LET zoom == Lerp(from.zoom, to.zoom, num, den)
        anchor(c0, c1) == Lerp((c0 * from.zoom) \div 1000, (c1 * to.zoom) \div 1000, num, den)
        safe_zoom == Max(zoom, 1)
    IN  [zoom |-> zoom,
         center |-> [x |-> (anchor(from.center.x, to.center.x) * 1000) \div safe_zoom,
                     y |-> (anchor(from.center.y, to.center.y) * 1000) \div safe_zoom]]

\* faulty variant: a query at the time of the first keyframe is interpolated
BeforeFirstStrict(kfs, t) == t < kfs[1].time
\* the query is at or before the first keyframe
BeforeFirst(kfs, t) == t <= kfs[1].time

\* the part of evaluate_transform between two keyframes
Between(kfs, t, window_mode) ==
    LET b == Bounding(kfs, t, 1, Len(kfs))
        from_kf == kfs[b[1]]
        to_kf == kfs[b[2]]
        segment_duration == to_kf.time - from_kf.time
        interpolated == IF window_mode
                        THEN InterpolatedForWindowMode(from_kf, to_kf, t - from_kf.time, segment_duration)
                        ELSE Interpolated(from_kf, to_kf, t - from_kf.time, segment_duration)
    IN  IF segment_duration <= 1
        THEN StateAt(to_kf)
        ELSE [zoom |-> interpolated.zoom,
              center |-> IF ~window_mode /\ interpolated.zoom > 1000
                         THEN ClampCenter(interpolated.center, interpolated.zoom)
                         ELSE interpolated.center,
              velocity |-> 1000]

EvaluateTransform(tr, t, window_mode) ==
    IF ~(tr.is_enabled /\ tr.keyframes # <<>>) THEN IdentityState
    ELSE IF BeforeFirst(tr.keyframes, t) THEN StateAt(tr.keyframes[1])
    ELSE IF t >= tr.keyframes[Len(tr.keyframes)].time THEN StateAt(tr.keyframes[Len(tr.keyframes)])
    ELSE Between(tr.keyframes, t, window_mode)

\* the keyframes a track to evaluate is made of, and the query times
EvalKeyframes ==
    [id : {0}, time : {0, 1000, 2000}, zoom : {1000, 3000},
     center : {NormalizedCenter, [x |-> 250, y |-> 1000]}]

QueryTimes == {-500, 0, 500, 1000, 1500, 2000, 2500}

\* the vectors of at most n keyframes, before ids are given
RECURSIVE KeyframeVectors(_)
KeyframeVectors(n) ==
    IF n = 0 THEN {<<>>}
    ELSE KeyframeVectors(n - 1)
            \cup {Append(v, k) : v \in {w \in KeyframeVectors(n - 1) : Len(w) = n - 1},
                                 k \in EvalKeyframes}

IsSorted(v) == \A m, n \in 1..Len(v) : m < n => v[m].time <= v[n].time

\* the transform tracks evaluated: enabled or not, keyframes sorted by time
EvalTracks ==
    {[type |-> "Transform", is_enabled |-> e, keyframes |-> Numbered(v)] :
        e \in BOOLEAN, v \in {w \in KeyframeVectors(MaxKeyframes) : IsSorted(w)}}

Evaluate(t, window_mode) ==
    /\ frame_state' = <<[time |-> t, window_mode |-> window_mode,
                         transform |-> EvaluateTransform(track, t, window_mode)]>>
    /\ NoCall
    /\ UNCHANGED <<coord, atomics, capVars, inpVars, chanVars, pc, cfgVars, timers, now, auxVars>>
    /\ UNCHANGED <<track, timeline, built, export>>

\* ---- the trim window of a timeline (core/timeline.rs); times in ms ----
\* trim_start.max(0.0).min(duration)
EffectiveTrimStart(tl) == Min(Max(tl.trim_start, 0), tl.duration)

\* trim_end.unwrap_or(duration).min(duration)
EffectiveTrimEnd(tl) ==
    Min(IF tl.trim_end = <<>> THEN tl.duration ELSE tl.trim_end[1], tl.duration)

\* (effective_trim_end - effective_trim_start).max(0.0)
TrimmedDuration(tl) == Max(EffectiveTrimEnd(tl) - EffectiveTrimStart(tl), 0)

\* durations of a timeline and the values stored in its trim fields
TrimDurations == {5000, 10000, 30000}

TrimValues == {-5000, 0, 2000, 5000, 8000, 10000, 15000}

\* the front end or a project file stores a trim start
SetTrimStart(v) ==
    /\ timeline' = [timeline EXCEPT !.trim_start = v]
    /\ NoCall
    /\ UNCHANGED <<coord, atomics, capVars, inpVars, chanVars, pc, cfgVars, timers, now, auxVars>>
    /\ UNCHANGED <<track, built, frame_state, export>>

\* the front end or a project file stores a trim end, or none
SetTrimEnd(o) ==
    /\ timeline' = [timeline EXCEPT !.trim_end = o]
    /\ NoCall
    /\ UNCHANGED <<coord, atomics, capVars, inpVars, chanVars, pc, cfgVars, timers, now, auxVars>>
    /\ UNCHANGED <<track, built, frame_state, export>>


\* ---- FrameEvaluator::evaluate_cursor (core/evaluator.rs): style, scale and
\* visibility of the cursor; scale in thousandths, times in ms ----
\* the CursorState returned for a track that is absent or disabled, or whose
\* style_keyframes is None or empty
DefaultCursorState == [style |-> "Arrow", scale |-> 2500, visible |-> TRUE]

\* keyframes.iter().rev().find(|k| k.time <= time): <<>> or the keyframe
RECURSIVE ActiveKeyframe(_, _)
ActiveKeyframe(kfs, t) ==
    IF kfs = <<>> THEN <<>>
    ELSE IF kfs[Len(kfs)].time <= t THEN <<kfs[Len(kfs)]>>
    ELSE ActiveKeyframe(SubSeq(kfs, 1, Len(kfs) - 1), t)

\* tr is <<>> (no cursor track) or <<track>>
EvaluateCursor(tr, t) ==
    IF tr = <<>> \/ ~tr[1].is_enabled THEN DefaultCursorState
    ELSE IF tr[1].style_keyframes = <<>> \/ tr[1].style_keyframes[1] = <<>>
    THEN DefaultCursorState
    ELSE LET active_kf == ActiveKeyframe(tr[1].style_keyframes[1], t)
         IN  IF active_kf # <<>>
             THEN [style |-> active_kf[1].style, scale |-> active_kf[1].scale,
                   visible |-> active_kf[1].visible]
             ELSE [style |-> tr[1].default_style, scale |-> tr[1].default_scale,
                   visible |-> tr[1].default_visible]

\* the cursor of the frame at time t is evaluated for the track
EvaluateCursorAt(t) ==
    /\ frame_state' = <<[time |-> t, cursor |-> EvaluateCursor(<<track>>, t)]>>
    /\ NoCall
    /\ UNCHANGED <<coord, atomics, capVars, inpVars, chanVars, pc, cfgVars, timers, now, auxVars>>
    /\ UNCHANGED <<track, timeline, built, export>>

\* ---- ExportEngine::export (core/render.rs); times in ms, progress in
\* thousandths ----
\* frame rates of the render context
FrameRates == {30, 60}

\* time = frame_idx as f64 * (1.0 / frame_rate)
FrameTime(idx, rate) == (idx * 1000) \div rate

\* a progress report is due every 10 frames and at the last frame
ProgressDue(idx, total) == idx % 10 = 0 \/ idx = total - 1

\* faulty variant: the share of the frames still to render is reported
RemainingShare(idx, total) == ((total - idx) * 1000) \div total
\* progress: frame_idx as f64 / total_frames as f64
RenderingProgress(idx, total) == (idx * 1000) \div total

Report(st, cur, pr) == [state |-> st, current_frame |-> cur, progress |-> pr]

\* an export of a source of n frames at the given rate, not begun
ExportOf(n, rate) == [NewExport EXCEPT !.pc = "prepare", !.total_frames = n, !.frame_rate = rate]

\* report Preparing, then encoder.start()?
ExportPrepare(start_ok) ==
    /\ export.pc = "prepare"
    /\ export' = [export EXCEPT
                      !.progress = Append(@, Report("Preparing", 0, 0)),
                      !.calls = Append(@, [op |-> "start", ok |-> start_ok]),
                      !.pc = IF start_ok THEN "render" ELSE "done",
                      !.result = IF start_ok THEN @ ELSE "Err"]
    /\ NoCall
    /\ UNCHANGED <<coord, atomics, capVars, inpVars, chanVars, pc, cfgVars, timers, now, auxVars>>
    /\ UNCHANGED <<track, timeline, built, frame_state>>

\* one turn of the render loop: read_frame()?, evaluate, render,
\* append_frame()?, and the progress report when it is due
ExportFrame(read_ok, append_ok) ==
    /\ export.pc = "render"
    /\ export.frame_idx < export.total_frames
    /\ LET idx == export.frame_idx
           time == FrameTime(idx, export.frame_rate)
       IN  export' =
             IF ~read_ok
             THEN [export EXCEPT !.pc = "done", !.result = "Err"]
             ELSE IF ~append_ok
             THEN [export EXCEPT
                      !.calls = Append(@, [op |-> "append", ok |-> FALSE, idx |-> idx, time |-> time]),
                      !.pc = "done", !.result = "Err"]
             ELSE [export EXCEPT
                      !.calls = Append(@, [op |-> "append", ok |-> TRUE, idx |-> idx, time |-> time]),
                      !.progress = IF ProgressDue(idx, export.total_frames)
                                   THEN Append(@, Report("Rendering", idx,
                                                  RenderingProgress(idx, export.total_frames)))
                                   ELSE @,
                      !.frame_idx = idx + 1]
    /\ NoCall
    /\ UNCHANGED <<coord, atomics, capVars, inpVars, chanVars, pc, cfgVars, timers, now, auxVars>>
    /\ UNCHANGED <<track, timeline, built, frame_state>>

\* after the loop: report Finalizing, encoder.finish()?, report Completed
ExportFinalize(finish_ok) ==
    /\ export.pc = "render"
    /\ export.frame_idx = export.total_frames
    /\ export' = [export EXCEPT
                      !.progress = IF finish_ok
                                   THEN @ \o <<Report("Finalizing", export.total_frames, 1000),
                                               Report("Completed", export.total_frames, 1000)>>
                                   ELSE Append(@, Report("Finalizing", export.total_frames, 1000)),
                      !.calls = Append(@, [op |-> "finish", ok |-> finish_ok]),
                      !.pc = "done",
                      !.result = IF finish_ok THEN "Ok" ELSE "Err"]
    /\ NoCall
    /\ UNCHANGED <<coord, atomics, capVars, inpVars, chanVars, pc, cfgVars, timers, now, auxVars>>
    /\ UNCHANGED <<track, timeline, built, frame_state>>


\* the progress callback (or the user behind it) wants the export cancelled
\* while frame export.frame_idx is in progress.  The callback is FnMut(ExportProgress)
\* and returns nothing, and the engine holds no flag: the wish is only noted.
CancelRequested ==
    /\ export.pc = "render"
    /\ export.cancel_at = -1
    /\ export' = [export EXCEPT !.cancel_at = export.frame_idx]
    /\ NoCall
    /\ UNCHANGED <<coord, atomics, capVars, inpVars, chanVars, pc, cfgVars, timers, now, auxVars>>
    /\ UNCHANGED <<track, timeline, built, frame_state>>


\* ---- start_export and update_render_settings (lib.rs) ----
OutputResolutions == {"Original", "Fhd1080", "Hd720"}

OutputFrameRates == {"Original", "Fixed"}

RenderSettingsSet ==
    {[output_resolution |-> r, output_frame_rate |-> f] :
        r \in OutputResolutions, f \in OutputFrameRates}

\* Timeline::total_keyframe_count and Timeline::is_empty
RECURSIVE TotalKeyframeCount(_)
TotalKeyframeCount(tracks) ==
    IF tracks = <<>> THEN 0
    ELSE Len(Head(tracks).keyframes) + TotalKeyframeCount(Tail(tracks))

IsEmpty(tracks) == TotalKeyframeCount(tracks) = 0

\* loaded.project.render_settings = settings
UpdateRenderSettings(s) ==
    /\ s # export_job.render_settings
    /\ export_job' = [export_job EXCEPT !.render_settings = s]
    /\ NoCall
    /\ UNCHANGED <<recVarsButLast, projVars>>
    /\ UNCHANGED <<encoder, append_failed, lock, stop_threads>>

\* start_export: clone the loaded project, spawn the export thread, return
StartExport ==
    /\ export_job.pc = "none"
    /\ export_job' = [export_job EXCEPT
                          !.pc = "spawned",
                          !.project = <<[tracks |-> timeline.tracks,
                                         render_settings |-> export_job.render_settings]>>]
    /\ NoCall
    /\ UNCHANGED <<recVarsButLast, projVars>>
    /\ UNCHANGED <<encoder, append_failed, lock, stop_threads>>

\* the export thread: when the cloned timeline is empty, std::fs::copy of the
\* recording and return; otherwise the ExportEngine pipeline
ExportThread(ok) ==
    /\ export_job.pc = "spawned"
    /\ export_job' = [export_job EXCEPT
                          !.pc = "done",
                          !.path = IF IsEmpty(export_job.project[1].tracks)
                                   THEN "copy" ELSE "pipeline",
                          !.event = IF ok THEN "export-complete" ELSE "export-error"]
    /\ NoCall
    /\ UNCHANGED <<recVarsButLast, projVars>>
    /\ UNCHANGED <<encoder, append_failed, lock, stop_threads>>


\* ---- StubEncoder (core/encoder.rs), called in any order ----
MaxCalls == 7

\* faulty variant: start() leaves frame_count as it is
FrameCountKept(n) == n
\* self.frame_count = 0 in start()
FrameCountAtStart(n) == 0

EncoderCall(o, r) == last' = [op |-> o, ret |-> r]

EncoderStart ==
    /\ encoder.calls < MaxCalls
    /\ IF encoder.encoding
       THEN /\ encoder' = [encoder EXCEPT !.calls = @ + 1]
            /\ EncoderCall("encoder.start", "AlreadyStarted")
       ELSE /\ encoder' = [encoder EXCEPT !.encoding = TRUE,
                                          !.frame_count = FrameCountAtStart(@),
                                          !.starts = @ + 1,
                                          !.appends = 0,
                                          !.calls = @ + 1]
            /\ EncoderCall("encoder.start", "Ok")
    /\ UNCHANGED <<recVarsButLast, projVars>>
    /\ UNCHANGED <<append_failed, lock, stop_threads, export_job>>

EncoderAppendFrame ==
    /\ encoder.calls < MaxCalls
    /\ IF ~encoder.encoding
       THEN /\ encoder' = [encoder EXCEPT !.calls = @ + 1]
            /\ EncoderCall("encoder.append_frame", "NotStarted")
       ELSE /\ encoder' = [encoder EXCEPT !.frame_count = @ + 1,
                                          !.appends = @ + 1,
                                          !.calls = @ + 1]
            /\ EncoderCall("encoder.append_frame", "Ok")
    /\ UNCHANGED <<recVarsButLast, projVars>>
    /\ UNCHANGED <<append_failed, lock, stop_threads, export_job>>

EncoderFinish ==
    /\ encoder.calls < MaxCalls
    /\ IF ~encoder.encoding
       THEN /\ encoder' = [encoder EXCEPT !.calls = @ + 1]
            /\ EncoderCall("encoder.finish", "NotStarted")
       ELSE /\ encoder' = [encoder EXCEPT !.encoding = FALSE, !.calls = @ + 1]
            /\ EncoderCall("encoder.finish", "Ok")
    /\ UNCHANGED <<recVarsButLast, projVars>>
    /\ UNCHANGED <<append_failed, lock, stop_threads, export_job>>


\* ---- the recording commands (lib.rs): each locks AppState.recorder; a command
\* that calls a coordinator method holds the mutex until the method returns
\* (pc # "idle"), a stop thread holds it from its lock to the end of its block
\* (lock = k) ----
StartRecording == lock = 0 /\ StartBegin

PauseRecording == lock = 0 /\ Pause

ResumeRecording == lock = 0 /\ Resume

RecordingStatus == lock = 0 /\ GetRecordingStatus

\* stop_recording: check the state under the mutex, release it, spawn the
\* stop thread and return Ok; the k-th accepted request spawns thread k
StopRecording(k) ==
    /\ lock = 0
    /\ pc = "idle"
    /\ stop_threads[k].pc = "none"
    /\ \A j \in StopIds : j < k => stop_threads[j].pc # "none"
    /\ state \in {"Recording", "Paused"}
    /\ stop_threads' = [stop_threads EXCEPT ![k] = [@ EXCEPT !.pc = "spawned", !.accepted = gen]]
    /\ NoCall
    /\ UNCHANGED <<recVarsButLast, projVars>>
    /\ UNCHANGED <<encoder, append_failed, lock, export_job>>

\* the stop thread locks the mutex and calls recorder.stop(): when stop()
\* rejects the state the thread unlocks and emits recording-stop-error,
\* otherwise stop() goes on to stop the recording that is active now
StopThreadLock(k) ==
    /\ lock = 0
    /\ pc = "idle"
    /\ stop_threads[k].pc = "spawned"
    /\ IF StopAllowed(state)
       THEN /\ lock' = k
            /\ stop_threads' = [stop_threads EXCEPT
                                    ![k] = [@ EXCEPT !.pc = "stopping", !.stopped = gen]]
       ELSE /\ lock' = 0
            /\ stop_threads' = [stop_threads EXCEPT
                                    ![k] = [@ EXCEPT !.pc = "done",
                                                     !.event = "recording-stop-error"]]
    /\ NoCall
    /\ UNCHANGED <<recVarsButLast, projVars>>
    /\ UNCHANGED <<encoder, append_failed, export_job>>

\* recorder.stop() of the thread that holds the mutex
StopThreadStop == lock # 0 /\ StopAllowed(state) /\ StopBegin

\* if result.is_ok() { recorder.reset() }
StopThreadReset == lock # 0 /\ state = "Completed" /\ Reset

\* the block ends: the mutex is released; the input data and the project are
\* saved and recording-stopped is emitted, or a save fails
StopThreadUnlock(k) ==
    /\ lock = k
    /\ pc = "idle"
    /\ state = "Idle"
    /\ lock' = 0
    /\ \E saved \in BOOLEAN :
          stop_threads' = [stop_threads EXCEPT
                               ![k] = [@ EXCEPT !.pc = "done",
                                                !.event = IF saved THEN "recording-stopped"
                                                          ELSE "recording-stop-error"]]
    /\ NoCall
    /\ UNCHANGED <<recVarsButLast, projVars>>
    /\ UNCHANGED <<encoder, append_failed, export_job>>

\* ---- the system ----
Next ==
    \/ StartBegin
    \/ StartChannel
    \/ StartSpawn
    \/ StartCapture
    \/ StartInput
    \/ StartTiming
    \/ Pause
    \/ Resume
    \/ StopBegin
    \/ StopCaptureSignal
    \/ StopCaptureJoin
    \/ StopEncoderJoin
    \/ StopEncoderTimeout
    \/ StopInput
    \/ Reset
    \/ CbBegin
    \/ CbSend
    \/ CaptureHang
    \/ InputHang
    \/ \E g \in Gens : EncRecv(g)
    \/ \E g \in Gens : EncAppend(g)
    \/ \E g \in Gens : EncClosed(g)
    \/ \E g \in Gens : EncFinish(g)

Spec == Init /\ [][Next]_vars

TypeOK ==
    /\ state \in States
    /\ frame_sender \in 0..MaxStarts
    /\ encoder_thread \in 0..MaxStarts
    /\ cbGen \in 0..MaxStarts
    /\ gen \in 0..MaxStarts
    /\ nextFrame \in 0..MaxFrames
    /\ \A g \in Gens : Len(queue[g]) <= MaxFrames

\* The worker threads are OS threads and keep running; a coordinator method
\* in progress keeps running.  Nothing obliges the user to call a method, the
\* backend to deliver a frame, or a thread to get stuck.
Fairness ==
    /\ WF_vars(StartChannel) /\ WF_vars(StartSpawn) /\ WF_vars(StartCapture)
    /\ WF_vars(StartInput) /\ WF_vars(StartTiming)
    /\ WF_vars(StopCaptureSignal) /\ WF_vars(StopCaptureJoin)
    /\ WF_vars(StopEncoderJoin \/ StopEncoderTimeout) /\ WF_vars(StopInput)
    /\ WF_vars(CbSend)
    /\ \A g \in Gens : WF_vars(EncRecv(g) \/ EncAppend(g) \/ EncClosed(g) \/ EncFinish(g))

FairSpec == Spec /\ Fairness

\* One recording session: the first start(), then any calls of pause(),
\* resume(), stop() and reset(), with the capture thread and the encoder
\* thread running and no thread getting stuck.
FirstStart == gen = 0 /\ StartBegin

EncoderStep(g) == EncRecv(g) \/ EncAppend(g) \/ EncClosed(g) \/ EncFinish(g)

SessionNext ==
    \/ FirstStart
    \/ StartChannel
    \/ StartSpawn
    \/ StartCapture
    \/ StartInput
    \/ StartTiming
    \/ Pause
    \/ Resume
    \/ StopBegin
    \/ StopCaptureSignal
    \/ StopCaptureJoin
    \/ StopEncoderJoin
    \/ StopEncoderTimeout
    \/ StopInput
    \/ Reset
    \/ CbBegin
    \/ CbSend
    \/ \E g \in Gens : EncoderStep(g)

SessionSpec ==
    /\ Init
    /\ [][SessionNext]_vars
    /\ \A g \in Gens : WF_vars(EncoderStep(g))

\* One recording session in which the front end also sets the capture target
\* and the capture dimensions and polls the status.
ConfigNext ==
    \/ SessionNext
    \/ \E t \in Targets : SetTarget(t)
    \/ \E d \in Dims : SetCaptureDimensions(d)
    \/ GetRecordingStatus

ConfigSpec == Init /\ [][ConfigNext]_vars

\* The coordinator's methods against the clock: sessions in which the capture
\* backend delivers no frame.
ClockNext ==
    \/ StartBegin
    \/ StartChannel
    \/ StartSpawn
    \/ StartCapture
    \/ StartInput
    \/ StartTiming
    \/ Pause
    \/ Resume
    \/ StopBegin
    \/ StopCaptureSignal
    \/ StopCaptureJoin
    \/ StopEncoderJoin
    \/ StopEncoderTimeout
    \/ StopInput
    \/ Reset
    \/ \E g \in Gens : EncClosed(g)
    \/ \E g \in Gens : EncFinish(g)
    \/ Tick

ClockSpec == Init /\ [][ClockNext]_vars

\* Editing: a new track of any type and a new timeline, then any calls of
\* the track's and the timeline's methods, with keyframes and tracks of any
\* id and any time.
EditInit ==
    /\ CoordinatorNew
    /\ AuxNew
    /\ track \in {NewTrack(ty) : ty \in TrackTypes}
    /\ timeline = NewTimeline(0)
    /\ built = <<>>
    /\ frame_state = <<>>
    /\ export = NewExport

EditNext ==
    \/ \E i \in Ids, t \in KfTimes : AddKeyframe(IdentityKeyframe(i, t))
    \/ \E i \in Ids : RemoveKeyframe(i)
    \/ \E i \in Ids, t \in KfTimes : UpdateKeyframe(IdentityKeyframe(i, t))
    \/ \E i \in Ids, e \in BOOLEAN : AddTrack(AnyTrack(i, e))
    \/ \E i \in Ids : RemoveTrack(i)
    \/ \E i \in Ids, e \in BOOLEAN : UpdateTrack(AnyTrack(i, e))

EditSpec == EditInit /\ [][EditNext]_vars

\* Building keyframes: any request, served by the constructor or by the
\* smart-zoom generator.
BuildInit ==
    /\ CoordinatorNew
    /\ AuxNew
    /\ track = NewTrack("Transform")
    /\ timeline = NewTimeline(0)
    /\ built \in {Requested(r) : r \in Requests}
    /\ frame_state = <<>>
    /\ export = NewExport

BuildNext == BuildNew \/ BuildGenerated

BuildSpec == BuildInit /\ [][BuildNext]_vars

\* Evaluating: any transform track with sorted keyframes, evaluated at any
\* query time in either mode.
EvalInit ==
    /\ CoordinatorNew
    /\ AuxNew
    /\ track \in EvalTracks
    /\ timeline = NewTimeline(0)
    /\ built = <<>>
    /\ frame_state = <<>>
    /\ export = NewExport

EvalNext == \E t \in QueryTimes, w \in BOOLEAN : Evaluate(t, w)

EvalSpec == EvalInit /\ [][EvalNext]_vars

\* Trimming: a new timeline of any duration whose trim fields are then set
\* to any values.
TrimInit ==
    /\ CoordinatorNew
    /\ AuxNew
    /\ track = NewTrack("Transform")
    /\ timeline \in {NewTimeline(d) : d \in TrimDurations}
    /\ built = <<>>
    /\ frame_state = <<>>
    /\ export = NewExport

TrimNext ==
    \/ \E v \in TrimValues : SetTrimStart(v)
    \/ \E o \in {<<>>} \cup {<<v>> : v \in TrimValues} : SetTrimEnd(o)

TrimSpec == TrimInit /\ [][TrimNext]_vars

\* Exporting: a source of any number of frames at any frame rate; the
\* encoder and the source may fail at any call.
ExportInit ==
    /\ CoordinatorNew
    /\ AuxNew
    /\ track = NewTrack("Transform")
    /\ timeline = NewTimeline(0)
    /\ built = <<>>
    /\ frame_state = <<>>
    /\ export \in {ExportOf(n, r) : n \in 0..MaxExportFrames, r \in FrameRates}

ExportNext ==
    \/ \E ok \in BOOLEAN : ExportPrepare(ok)
    \/ \E r, a \in BOOLEAN : ExportFrame(r, a)
    \/ \E ok \in BOOLEAN : ExportFinalize(ok)

ExportSpec == ExportInit /\ [][ExportNext]_vars


\* Exporting with a cancellation wished for at any frame
CancelNext == ExportNext \/ CancelRequested

CancelSpec == ExportInit /\ [][CancelNext]_vars


\* Exporting a loaded project: any timeline of tracks with keyframes, render
\* settings updated at any time, one start_export
ProjectKeyframes ==
    {<<>>, <<IdentityKeyframe(0, 0)>>, <<IdentityKeyframe(0, 0), IdentityKeyframe(0, 1)>>}

ProjectTracks ==
    {Numbered(t) :
        t \in UNION {[1..n -> {[id |-> 0, is_enabled |-> e, keyframes |-> Numbered(v)] :
                                  e \in BOOLEAN, v \in ProjectKeyframes}] : n \in 0..MaxTracks}}

StartExportInit ==
    /\ CoordinatorNew
    /\ AuxNew
    /\ track = NewTrack("Transform")
    /\ timeline \in {[NewTimeline(5000) EXCEPT !.tracks = t] : t \in ProjectTracks}
    /\ built = <<>>
    /\ frame_state = <<>>
    /\ export = NewExport

StartExportNext ==
    \/ \E s \in RenderSettingsSet : UpdateRenderSettings(s)
    \/ StartExport
    \/ \E ok \in BOOLEAN : ExportThread(ok)

StartExportSpec == StartExportInit /\ [][StartExportNext]_vars


\* Generating ripples: any clicks in time order, either interval
RippleRequests ==
    {[clicks |-> v, min_interval |-> m] :
        v \in {w \in ClickVectors(MaxClicks) : IsSorted(w)}, m \in MinIntervals}

RippleInit ==
    /\ CoordinatorNew
    /\ AuxNew
    /\ track = NewTrack("Ripple")
    /\ timeline = NewTimeline(0)
    /\ built \in {Requested(r) : r \in RippleRequests}
    /\ frame_state = <<>>
    /\ export = NewExport

RippleNext == BuildRipples

RippleSpec == RippleInit /\ [][RippleNext]_vars


\* A video encoder called in any order
EncoderNext == EncoderStart \/ EncoderAppendFrame \/ EncoderFinish

EncoderSpec == Init /\ [][EncoderNext]_vars


\* One recording session in which append_frame may fail for any frame
AppendFailNext == SessionNext \/ \E g \in Gens : EncAppendErr(g)

AppendFailSpec ==
    /\ Init
    /\ [][AppendFailNext]_vars


\* Smart zoom: mouse data of any duration whose activities cluster into no,
\* one or more sessions, in time order
SessionTimes == {0, 1000, 2000, 6000}

SessionCenters == {[x |-> 0, y |-> 0], [x |-> 1000, y |-> 300]}

AreaSizes == {0, 50, 1000}

DataDurations == {0, 1000, 5000}

ClusteredSessions ==
    {s \in [start_time : SessionTimes, end_time : SessionTimes,
            center : SessionCenters, area_size : AreaSizes] : s.start_time <= s.end_time}

SessionsInOrder(v) == \A n \in 1..(Len(v) - 1) : v[n].end_time <= v[n + 1].start_time

MouseData ==
    {[sessions |-> v, duration |-> d] :
        v \in {w \in UNION {[1..n -> ClusteredSessions] : n \in 0..MaxSessions} :
                  SessionsInOrder(w)},
        d \in DataDurations}

SmartZoomInit ==
    /\ CoordinatorNew
    /\ AuxNew
    /\ track = NewTrack("Transform")
    /\ timeline = NewTimeline(0)
    /\ built \in {Requested(r) : r \in MouseData}
    /\ frame_state = <<>>
    /\ export = NewExport

SmartZoomNext == BuildSmartZoom

SmartZoomSpec == SmartZoomInit /\ [][SmartZoomNext]_vars


\* Evaluating the cursor: any cursor track, with any defaults, without style
\* keyframes or with keyframes sorted by time, evaluated at any time
CursorKeyframes ==
    [id : {0}, time : {1000, 2000}, style : {"Pointer", "IBeam"}, visible : BOOLEAN,
     scale : {1500}]

RECURSIVE CursorVectors(_)
CursorVectors(n) ==
    IF n = 0 THEN {<<>>}
    ELSE CursorVectors(n - 1)
            \cup {Append(v, k) : v \in {w \in CursorVectors(n - 1) : Len(w) = n - 1},
                                 k \in CursorKeyframes}

CursorTracks ==
    {[type |-> "Cursor", is_enabled |-> e, default_style |-> s, default_scale |-> c,
      default_visible |-> b, style_keyframes |-> k] :
        e \in BOOLEAN, s \in {"Arrow", "Pointer"}, c \in {2500, 1000}, b \in BOOLEAN,
        k \in {<<>>} \cup {<<Numbered(v)>> : v \in {w \in CursorVectors(MaxKeyframes) : IsSorted(w)}}}

CursorTimes == {0, 1000, 1500, 2500}

CursorInit ==
    /\ CoordinatorNew
    /\ AuxNew
    /\ track \in CursorTracks
    /\ timeline = NewTimeline(0)
    /\ built = <<>>
    /\ frame_state = <<>>
    /\ export = NewExport

CursorNext == \E t \in CursorTimes : EvaluateCursorAt(t)

CursorSpec == CursorInit /\ [][CursorNext]_vars


\* The recording commands in any interleaving, with the capture thread and
\* the encoder threads running and no thread getting stuck
CommandNext ==
    \/ StartRecording
    \/ StartChannel
    \/ StartSpawn
    \/ StartCapture
    \/ StartInput
    \/ StartTiming
    \/ PauseRecording
    \/ ResumeRecording
    \/ RecordingStatus
    \/ \E k \in StopIds : StopRecording(k)
    \/ \E k \in StopIds : StopThreadLock(k)
    \/ StopThreadStop
    \/ StopCaptureSignal
    \/ StopCaptureJoin
    \/ StopEncoderJoin
    \/ StopEncoderTimeout
    \/ StopInput
    \/ StopThreadReset
    \/ \E k \in StopIds : StopThreadUnlock(k)
    \/ CbBegin
    \/ CbSend
    \/ \E g \in Gens : EncRecv(g)
    \/ \E g \in Gens : EncAppend(g)
    \/ \E g \in Gens : EncClosed(g)
    \/ \E g \in Gens : EncFinish(g)

CommandSpec ==
    /\ Init
    /\ [][CommandNext]_vars

\* ---- helpers of the properties ----
Methods == {"start", "pause", "resume", "stop"}

\* the state in which method o is accepted, as the claims state it
Accepts(o, s) ==
    CASE o = "start"  -> s = "Idle"
      [] o = "pause"  -> s = "Recording"
      [] o = "resume" -> s = "Paused"
      [] o = "stop"   -> s \in {"Recording", "Paused"}

\* the step enters method o (a return step of start()/stop() has pc # "idle")
Enters(o) == pc = "idle" /\ last'.op = o

InRecording(s) == s \in {"Recording", "Paused", "Stopping"}

\* frames the encoder thread of generation g has taken from the queue
Taken(g) == Len(appended[g]) + (IF encCur[g] # 0 THEN 1 ELSE 0)

\* frames delivered by the capture backend so far, in order
Delivered == [i \in 1..nextFrame |-> i]

RECURSIVE IsSubseq(_, _)
IsSubseq(s, t) ==
    IF s = <<>> THEN TRUE
    ELSE IF t = <<>> THEN FALSE
    ELSE IF Head(s) = Head(t) THEN IsSubseq(Tail(s), Tail(t))
    ELSE IsSubseq(s, Tail(t))

Elems(s) == {s[i] : i \in 1..Len(s)}

StateEdges ==
    { <<"Idle", "Recording">>, <<"Recording", "Paused">>, <<"Paused", "Recording">>,
      <<"Recording", "Stopping">>, <<"Paused", "Stopping">>, <<"Stopping", "Completed">> }

C2_HappyPath ==
    [][/\ (last'.op = "start" /\ last'.ret = "Ok") => (state = "Idle" /\ state' = "Recording")
       /\ (Enters("pause") /\ state = "Recording") => (last'.ret = "Ok" /\ state' = "Paused")
       /\ (Enters("resume") /\ state = "Paused") => (last'.ret = "Ok" /\ state' = "Recording")
       /\ (Enters("stop") /\ state \in {"Recording", "Paused"}) => last'.ret = "pending"
       /\ (pc # "idle" /\ last'.op = "stop") => (last'.ret = "Ok" /\ state' = "Completed")
       /\ (state' # state /\ last'.op # "reset") => <<state, state'>> \in StateEdges]_vars

C2_Witness ==
    /\ last = [op |-> "stop", ret |-> "Ok"]
    /\ state = "Completed"
    /\ Len(appended[gen]) > 0

\* ---- C3 ----
\* C3: during a recording the frames the callback tried to enqueue are the
\* frames the encoder thread has taken, the frames in the queue and the
\* dropped frames, and dropped_frames does not decrease.
QueueAccounting ==
    InRecording(state) =>
        attempted[gen] = Taken(gen) + Len(queue[gen]) + dropped_frames

C3_QueueAccounting ==
    [][/\ QueueAccounting'
       /\ (InRecording(state) /\ InRecording(state')) => dropped_frames' >= dropped_frames]_vars

C3_Witness ==
    /\ state = "Recording"
    /\ dropped_frames > 0
    /\ Taken(gen) > 0
    /\ queue[gen] # <<>>

\* ---- C4 ----
\* C4: a queue never holds more frames than its capacity; a callback that
\* finds the queue full returns without blocking, the queue is unchanged,
\* dropped_frames grows by one, no coordinator field changes.
C4_FullQueueDrops ==
    [][/\ \A g \in Gens : Len(queue'[g]) <= Capacity /\ Len(queue'[g]) <= FRAME_CHANNEL_CAPACITY
       /\ (capThread = "send" /\ capThread' # "send" /\ Len(queue[cbGen]) = Capacity)
            => /\ capThread' = "idle"
               /\ queue' = queue
               /\ dropped_frames' = dropped_frames + 1
               /\ UNCHANGED <<coord, pc, is_paused, shared_frame_count>>
               /\ last'.ret = "none"]_vars

C4_Witness ==
    /\ dropped_frames = 1
    /\ Len(queue[gen]) = Capacity
    /\ capThread = "idle"
    /\ nextFrame = Capacity + 1

\* ---- C5 ----
\* C5: while the coordinator is Paused no frame is enqueued.
C5_NoEnqueueWhilePaused ==
    [][state = "Paused" => \A g \in Gens : Len(enqueued'[g]) = Len(enqueued[g])]_vars

\* ---- C6 ----
\* C6: the encoder thread calls finish() at most once, only when the channel
\* is closed and every frame that was enqueued has been passed to
\* append_frame; it appends nothing after finish(); when it has terminated,
\* finish() has been called exactly once; and once every sender of its
\* channel is dropped the thread terminates.
EncoderDrained(g) ==
    /\ finishCalls[g] <= 1
    /\ (finishCalls[g] = 1) <=> (encPc[g] \in {"done", "failed"})
    /\ encPc[g] \in {"finish", "done", "failed"}
         => /\ Senders(g) = {}
            /\ queue[g] = <<>>
            /\ encCur[g] = 0
            /\ appended[g] = enqueued[g]

C6_DrainThenFinish ==
    /\ [][\A g \in Gens :
            /\ EncoderDrained(g)'
            /\ finishCalls[g] > 0 => appended'[g] = appended[g]]_vars
    /\ \A g \in Gens :
          (Senders(g) = {} /\ encPc[g] \in {"recv", "append"})
              ~> (encPc[g] \in {"done", "failed"} /\ appended[g] = enqueued[g])

C6_Witness ==
    /\ gen > 0
    /\ encPc[gen] = "done"
    /\ Len(appended[gen]) >= 2
    /\ state = "Stopping"

\* ---- C7 ----
\* C7: a stop() that was accepted returns, with the coordinator Completed.
C7_StopReturns ==
    (pc \in {"stop_capture", "stop_capture_join", "stop_encoder", "stop_input"})
        ~> (pc = "idle" /\ state = "Completed")

\* ---- C8 ----
\* C8: the frames passed to append_frame are a subsequence of the frames
\* delivered by the capture backend, and no frame is appended twice.
C8_CaptureOrder ==
    /\ \A g \in Gens : IsSubseq(appended[g], Delivered)
    /\ \A g \in Gens : Cardinality(Elems(appended[g])) = Len(appended[g])
    /\ \A g, h \in Gens : g # h => Elems(appended[g]) \cap Elems(appended[h]) = {}

C8_Witness ==
    /\ gen > 0
    /\ Len(appended[gen]) >= 2
    /\ dropped_frames > 0

\* ---- C9 ----
\* C9: the capture backend is started only when the channel exists and its
\* encoder thread runs, the input monitor only when the capture backend has
\* been started, and whenever an on_frame callback exists the encoder thread
\* of its channel is alive.
ConsumerAlive(g) == encPc[g] \in {"recv", "append"}

C9_StartOrder ==
    [][/\ (capturing' /\ ~capturing) => (gen > 0 /\ frame_sender = gen /\ ConsumerAlive(gen))
       /\ (monitoring' /\ ~monitoring) => (capturing /\ cbGen = gen)
       /\ (cbGen' # 0) => ConsumerAlive(cbGen)']_vars

C9_Witness ==
    /\ capThread = "send"
    /\ monitoring
    /\ encPc[cbGen] = "append"

\* ---- C10 ----
\* C10: a start() that returns an error leaves the coordinator Failed.
C10_FailedAfterStartError ==
    (last.op = "start" /\ last.ret = "Err") => state = "Failed"

\* C11: set_target() and set_capture_dimensions() take effect only in state
\* Idle; called in any other state they return an error and leave the capture
\* target and the capture dimensions as they were.
C11_ConfigOnlyWhileIdle ==
    [][\A o \in {"set_target", "set_capture_dimensions"} :
          (Enters(o) /\ state # "Idle")
              => (last'.ret # "Ok" /\ UNCHANGED cfgVars)]_vars

\* C12: a status request never waits for the encoder thread: while stop() is
\* waiting for the encoder thread to finish, get_recording_status can return.
C12_StatusDuringStop == (pc = "stop_encoder") => ENABLED GetRecordingStatus

C14_Elapsed ==
    /\ [](Elapsed >= 0)
    /\ [][(last'.op = "start" /\ last'.ret = "Ok") => Elapsed' = 0]_vars
    /\ [][(state = "Recording" /\ state' = "Recording") => Elapsed' - Elapsed = now' - now]_vars
    /\ [][(state = "Paused" /\ state' = "Paused") => Elapsed' = Elapsed]_vars
    /\ [][(InRecording(state) /\ InRecording(state') /\ now' = now) => Elapsed' = Elapsed]_vars

\* recording again after a pause that took time
C14_Witness ==
    /\ state = "Recording"
    /\ total_paused > 0
    /\ Elapsed > 0
    /\ now - start_time > Elapsed

\* the ids of the elements of a vector
IdsOf(v) == {v[n].id : n \in 1..Len(v)}

UniqueIds(v) == \A m, n \in 1..Len(v) : v[m].id = v[n].id => m = n

\* C15: starting from an empty track, after any sequence of add_keyframe,
\* update_keyframe and remove_keyframe calls with any times, the keyframe
\* times of the track are in non-decreasing order.
C15_KeyframesSorted ==
    \A m, n \in 1..Len(track.keyframes) :
        m < n => track.keyframes[m].time <= track.keyframes[n].time

\* a later-added earlier keyframe was sorted in front, with equal times present
C15_Witness ==
    /\ Len(track.keyframes) = 3
    /\ track.keyframes[1].time = track.keyframes[2].time
    /\ track.keyframes[2].time < track.keyframes[3].time
    /\ last.op = "update_keyframe"
    /\ last.arg = track.keyframes[1].id

\* C16 as stated: after any sequence of calls, no two keyframes of the track
\* and no two tracks of the timeline have the same id.
C16_UniqueIds == UniqueIds(track.keyframes) /\ UniqueIds(timeline.tracks)

\* the step adds a keyframe or a track whose id is already present
AddsPresentId ==
    \/ last'.op = "add_keyframe" /\ last'.arg \in IdsOf(track.keyframes)
    \/ last'.op = "add_track" /\ last'.arg \in IdsOf(timeline.tracks)

\* C16 amended: every call keeps the ids of the keyframes and of the tracks
\* distinct, except an add_keyframe or add_track whose argument carries an
\* id that is already present.
C16_UniqueIdsKept ==
    [][(C16_UniqueIds /\ ~AddsPresentId) => C16_UniqueIds']_vars

\* an update replaced one of two keyframes and a track of two in place
C16_Witness ==
    /\ C16_UniqueIds
    /\ Len(track.keyframes) = 2
    /\ Len(timeline.tracks) = 2
    /\ last.op = "update_keyframe"
    /\ track.keyframes[1].id = last.arg

\* the keyframes built so far
BuiltKeyframes == IF built = <<>> THEN {} ELSE {built.keyframes[n] : n \in 1..Len(built.keyframes)}

\* the center lies within [0.5/zoom, 1 - 0.5/zoom] in both coordinates
CenterFitsZoom(k) ==
    /\ k.center.x * k.zoom >= 500 * 1000
    /\ (1000 - k.center.x) * k.zoom >= 500 * 1000
    /\ k.center.y * k.zoom >= 500 * 1000
    /\ (1000 - k.center.y) * k.zoom >= 500 * 1000

\* C17 as stated: every keyframe built by the constructor or emitted by the
\* smart-zoom generator has zoom >= 1 and, when zoom > 1, its center within
\* [0.5/zoom, 1 - 0.5/zoom] in both coordinates.
C17_TransformClamp ==
    \A k \in BuiltKeyframes : k.zoom >= 1000 /\ (k.zoom > 1000 => CenterFitsZoom(k))

\* C17 amended: every keyframe built has zoom >= 1; one built by the
\* constructor has its center within [0, 1] in both coordinates, and one
\* emitted by the generator with zoom > 1 has it within [0.5/zoom, 1 - 0.5/zoom].
C17_TransformClampByOrigin ==
    \A k \in BuiltKeyframes :
        /\ k.zoom >= 1000
        /\ k.center.x \in 0..1000 /\ k.center.y \in 0..1000
        /\ (built.by = "generator" /\ k.zoom > 1000) => CenterFitsZoom(k)

\* the generator moved a center at the edge of the image into the crop
C17_Witness ==
    /\ built # <<>>
    /\ built.by = "generator"
    /\ built.request.center.x = 0
    /\ built.request.zoom = 4000
    /\ \E k \in BuiltKeyframes : k.zoom = 4000 /\ k.center.x = 125

\* the first and the last keyframe of the evaluated track
FirstKf == track.keyframes[1]

LastKf == track.keyframes[Len(track.keyframes)]

\* the track has a keyframe and is enabled
Evaluable == track.is_enabled /\ track.keyframes # <<>>

\* C18 as stated: an enabled transform track with at least one keyframe
\* evaluates at any t <= first.time to (first.zoom, first.center, velocity 0)
\* and at any t >= last.time to (last.zoom, last.center, velocity 0); a
\* disabled or empty track evaluates to zoom 1, center (0.5, 0.5), velocity 0.
C18_EvaluatorBoundaries ==
    \A n \in 1..Len(frame_state) :
        LET s == frame_state[n] IN
        /\ (Evaluable /\ s.time <= FirstKf.time) => s.transform = StateAt(FirstKf)
        /\ (Evaluable /\ s.time >= LastKf.time) => s.transform = StateAt(LastKf)
        /\ ~Evaluable => s.transform = IdentityState

\* C18 amended: as C18, but a query time that is both <= first.time and
\* >= last.time (all keyframes at one time, the query at that time) yields
\* the first keyframe; t >= last.time yields the last one when t > first.time.
C18_EvaluatorBoundariesFirstWins ==
    \A n \in 1..Len(frame_state) :
        LET s == frame_state[n] IN
        /\ (Evaluable /\ s.time <= FirstKf.time) => s.transform = StateAt(FirstKf)
        /\ (Evaluable /\ s.time >= LastKf.time /\ s.time > FirstKf.time)
               => s.transform = StateAt(LastKf)
        /\ ~Evaluable => s.transform = IdentityState

\* evaluated at the time of the first of several keyframes with other values
C18_Witness ==
    /\ frame_state # <<>>
    /\ Evaluable
    /\ Len(track.keyframes) >= 2
    /\ FirstKf.time < LastKf.time
    /\ FirstKf.zoom # LastKf.zoom
    /\ frame_state[1].time = FirstKf.time

\* C19: for a timeline with duration > 0 and any stored trim_start and
\* trim_end, 0 <= effective_trim_start <= effective_trim_end <= duration and
\* trimmed_duration = effective_trim_end - effective_trim_start.
C19_TrimWindow ==
    timeline.duration > 0 =>
        /\ 0 <= EffectiveTrimStart(timeline)
        /\ EffectiveTrimStart(timeline) <= EffectiveTrimEnd(timeline)
        /\ EffectiveTrimEnd(timeline) <= timeline.duration
        /\ TrimmedDuration(timeline) = EffectiveTrimEnd(timeline) - EffectiveTrimStart(timeline)

\* the order of the progress states of a successful export
StateRank(st) ==
    CASE st = "Preparing" -> 1 [] st = "Rendering" -> 2 [] st = "Finalizing" -> 3
      [] st = "Completed" -> 4

\* C20: a successful export calls encoder.start() before any append, appends
\* exactly total_frames frames in increasing frame index with non-decreasing
\* time stamps, calls encoder.finish() exactly once, after the last append,
\* and reports Preparing, Rendering (zero or more times), Finalizing,
\* Completed, in this order, with progress values that never decrease.
C20_ExportOrder ==
    export.result = "Ok" =>
        LET c == export.calls
            p == export.progress
            n == export.total_frames
        IN  /\ Len(c) = n + 2
            /\ c[1].op = "start"
            /\ c[n + 2].op = "finish"
            /\ \A k \in 2..(n + 1) : c[k].op = "append" /\ c[k].idx = k - 2
            /\ \A k \in 2..n : c[k].time <= c[k + 1].time
            /\ Len(p) >= 3
            /\ p[1].state = "Preparing"
            /\ p[Len(p) - 1].state = "Finalizing"
            /\ p[Len(p)].state = "Completed"
            /\ \A k \in 2..(Len(p) - 2) : p[k].state = "Rendering"
            /\ \A k \in 1..(Len(p) - 1) :
                   /\ StateRank(p[k].state) <= StateRank(p[k + 1].state)
                   /\ p[k].progress <= p[k + 1].progress

\* a successful export long enough for three Rendering reports
C20_Witness ==
    /\ export.result = "Ok"
    /\ export.total_frames >= 12
    /\ Len(export.progress) = 6
    /\ export.progress[3].progress > 0


\* C21: once cancellation is signalled, the export loop stops after the frame
\* in progress, appends no further frame, and export returns Cancelled.
C21_CancelStopsExport ==
    export.cancel_at >= 0 =>
        /\ export.frame_idx <= export.cancel_at + 1
        /\ export.pc = "done" => export.result = "Cancelled"


\* C22: start_export copies the source video instead of running the render
\* pipeline only when the timeline has no keyframe in any track and the render
\* settings keep the original resolution and frame rate.
C22_FastCopyOnlyUnchanged ==
    export_job.path = "copy" =>
        /\ IsEmpty(export_job.project[1].tracks)
        /\ export_job.project[1].render_settings = DefaultRenderSettings


\* C26: when export ends early because reading or appending a frame failed,
\* the encoder that was started has been finalized (finish() was called)
\* before export returns the error.
C26_EncoderFinalizedOnError ==
    (/\ export.result = "Err"
     /\ export.calls # <<>>
     /\ export.calls[1].ok
     /\ export.frame_idx < export.total_frames)
        => \E k \in 1..Len(export.calls) : export.calls[k].op = "finish"


\* the clicks of the test of generate_ripples: 1.00 s, 1.02 s and 2.00 s
TestClicks ==
    << [time |-> 1000, click_type |-> "LeftDown"],
       [time |-> 1020, click_type |-> "LeftDown"],
       [time |-> 2000, click_type |-> "LeftDown"] >>

\* C23: for clicks in time order, a ripple keyframe is emitted only for a
\* left-button-down or double-click event, any two emitted keyframes are at
\* least min_interval apart, and the clicks at 1.00, 1.02 and 2.00 s give
\* exactly 2 keyframes with the default interval.
C23_RippleDebounce ==
    (built # <<>> /\ built.by = "ripples") =>
        LET k == built.keyframes
            r == built.request
        IN  /\ \A n \in 1..Len(k) :
                   \E c \in 1..Len(r.clicks) :
                       /\ r.clicks[c].time = k[n].time
                       /\ r.clicks[c].click_type \in {"LeftDown", "DoubleClick"}
            /\ \A m, n \in 1..Len(k) : m < n => k[n].time - k[m].time >= r.min_interval
            /\ (r.clicks = TestClicks /\ r.min_interval = 100) => Len(k) = 2

\* the clicks of the test were given: the second one was skipped
C23_Witness ==
    /\ built # <<>>
    /\ built.by = "ripples"
    /\ built.request.clicks = TestClicks
    /\ built.request.min_interval = 100
    /\ Len(built.keyframes) = 2


\* C24: over any sequence of calls, start() while encoding fails with
\* AlreadyStarted; append_frame() and finish() while not encoding fail with
\* NotStarted and change nothing; start() resets frames_encoded to 0;
\* frames_encoded is the number of successful append_frame calls since the
\* last start; finish() ends encoding, so that a later start() succeeds.
C24_EncoderProtocol ==
    [][encoder'.calls # encoder.calls =>
        LET o == last'.op
            r == last'.ret
            same == /\ encoder'.encoding = encoder.encoding
                    /\ encoder'.frame_count = encoder.frame_count
        IN  /\ (o = "encoder.start" /\ encoder.encoding) => (r = "AlreadyStarted" /\ same)
            /\ (o = "encoder.start" /\ ~encoder.encoding) =>
                   (r = "Ok" /\ encoder'.encoding /\ encoder'.frame_count = 0)
            /\ (o \in {"encoder.append_frame", "encoder.finish"} /\ ~encoder.encoding) =>
                   (r = "NotStarted" /\ same)
            /\ (o = "encoder.append_frame" /\ encoder.encoding) => r = "Ok"
            /\ (o = "encoder.finish" /\ encoder.encoding) => (r = "Ok" /\ ~encoder'.encoding)
            /\ encoder'.starts > 0 => encoder'.frame_count = encoder'.appends]_vars

\* the encoder was started, fed, finished and started again, and fed once more
C24_Witness ==
    /\ encoder.starts = 2
    /\ encoder.encoding
    /\ encoder.frame_count = 1
    /\ encoder.calls = 5
    /\ last = [op |-> "encoder.append_frame", ret |-> "Ok"]


\* C25: when append_frame fails for a frame, the failed frame counts as
\* dropped: the frame count that a stop() which joined the encoder thread
\* leaves behind is the number of frames appended successfully.
C25_FailedFrameDropped ==
    (/\ state = "Completed"
     /\ pc = "idle"
     /\ gen > 0
     /\ encPc[gen] = "done"
     /\ frame_count = encoded[gen])
        => frame_count = Len(appended[gen]) - Cardinality(append_failed[gen])


\* C27: for any mouse data with duration >= 0, the keyframes of the track that
\* generate_smart_zoom returns have times within [0, duration] in
\* non-decreasing order, consecutive keyframes at least 0.01 s apart, every
\* zoom >= 1, and every center with zoom > 1 inside [0.5/zoom, 1 - 0.5/zoom];
\* without activities the track has no keyframes.
C27_SmartZoomPostConditions ==
    (built # <<>> /\ built.by = "smart_zoom") =>
        LET k == built.keyframes
            d == built.request.duration
        IN  /\ \A n \in 1..Len(k) :
                   /\ 0 <= k[n].time /\ k[n].time <= d
                   /\ k[n].zoom >= 1000
                   /\ k[n].zoom > 1000 =>
                          /\ HalfCrop(k[n].zoom) <= k[n].center.x
                          /\ k[n].center.x <= 1000 - HalfCrop(k[n].zoom)
                          /\ HalfCrop(k[n].zoom) <= k[n].center.y
                          /\ k[n].center.y <= 1000 - HalfCrop(k[n].zoom)
            /\ \A n \in 1..(Len(k) - 1) : k[n + 1].time - k[n].time >= 10
            /\ built.request.sessions = <<>> => k = <<>>

\* two sessions far apart in a video that ends before the second one: the
\* clamp of the times and the removal of close keyframes both acted
C27_Witness ==
    /\ built # <<>>
    /\ built.by = "smart_zoom"
    /\ Len(built.request.sessions) = 2
    /\ built.request.sessions[2].start_time > built.request.duration
    /\ built.request.sessions[1].center.x = 0
    /\ Len(built.keyframes) >= 3
    /\ Len(built.keyframes) < 8


\* the style keyframes of the track, none when style_keyframes is None
StyleKeyframes == IF track.style_keyframes = <<>> THEN <<>> ELSE track.style_keyframes[1]

\* C28: for an enabled cursor track with style keyframes sorted by time, the
\* evaluated style, scale and visibility at time t are those of the latest
\* keyframe with time <= t, and when there is none (t before the first
\* keyframe, or no style keyframes) they are the track's default_style,
\* default_scale and default_visible.
C28_CursorDiscrete ==
    (frame_state # <<>> /\ track.type = "Cursor" /\ track.is_enabled) =>
        LET t == frame_state[1].time
            c == frame_state[1].cursor
            k == StyleKeyframes
            at == {n \in 1..Len(k) : k[n].time <= t}
        IN  IF at # {}
            THEN LET n == CHOOSE m \in at : \A o \in at : o <= m
                 IN  c = [style |-> k[n].style, scale |-> k[n].scale, visible |-> k[n].visible]
            ELSE c = [style |-> track.default_style, scale |-> track.default_scale,
                      visible |-> track.default_visible]


\* C29: whenever the coordinator is Idle and no method is running, the
\* capture backend is not capturing, the input monitor is not monitoring, and
\* no encoder thread of an earlier start() is still consuming frames.
C29_IdleIsQuiet ==
    (state = "Idle" /\ pc = "idle") =>
        /\ ~capturing
        /\ ~monitoring
        /\ \A g \in Gens : encPc[g] \notin {"recv", "append", "finish"}


\* C30: a stop request accepted while recording R was active stops only R:
\* the recording a stop thread stops is the one that was active when its
\* request was accepted, and no recording is stopped by two threads.
C30_StopOnlyItsRecording ==
    /\ \A k \in StopIds :
           stop_threads[k].stopped # 0 => stop_threads[k].stopped = stop_threads[k].accepted
    /\ \A j, k \in StopIds :
           (j # k /\ stop_threads[j].stopped # 0)
               => stop_threads[j].stopped # stop_threads[k].stopped
====
